---- MODULE Spec2Model ----
(***************************************************************************)
(* Gaveloc: the update cycle of the launcher.                              *)
(*                                                                         *)
(* Two orchestrators drive a batch of patches:                             *)
(*   - run_patching (apps/gaveloc_ui/src-tauri/src/commands/patching.rs),  *)
(*     which downloads and verifies every patch, then hands the batch to   *)
(*     the isolated patch worker (apps/gaveloc_patcher/src/main.rs) over   *)
(*     the IPC client (crates/gaveloc_adapters/src/ipc/client.rs) and      *)
(*     writes the version files after the poll loop ends;                  *)
(*   - UpdateGameUseCase::apply_patches                                    *)
(*     (crates/gaveloc_core/src/use_cases/update_game.rs), which           *)
(*     downloads, verifies, applies and records each patch in process.     *)
(*                                                                         *)
(* A PatchEntry is identified by its position in the batch; its            *)
(* version_id is a well-formed version literal, modelled by the position   *)
(* (the patch server lists patches in ascending version order), and a      *)
(* version file holds the last literal written to it (0: the installed     *)
(* version before the cycle).                                              *)
(***************************************************************************)
EXTENDS Integers, Sequences, FiniteSets, TLC

\* ---- bounds ------------------------------------------------------------
MaxBatchLen == 2
MaxCalls == 3
MaxFrames == 3
MaxTicks == 3
MaxStarts == 2

\* ---- program vocabulary ------------------------------------------------
GameRepos == {"Ffxiv", "Ex1"}
Repos == {"Boot"} \cup GameRepos

RECURSIVE SeqsOf(_, _)
SeqsOf(S, n) ==
    IF n = 0 THEN {<<>>}
    ELSE LET shorter == SeqsOf(S, n - 1)
         IN  shorter \cup {Append(s, x) : s \in {t \in shorter : Len(t) = n - 1}, x \in S}

\* The repository column of the patch lists the server can return: a boot
\* check tags every line Boot, a game registration tags lines by URL segment.
BootBatches == {s \in SeqsOf({"Boot"}, MaxBatchLen) : Len(s) > 0}
GameBatches == {s \in SeqsOf(GameRepos, MaxBatchLen) : Len(s) > 0}
Batches == BootBatches \cup GameBatches

VARIABLES
    orchestrator,       \* "run_patching" | "use_case" | "commands"
    batch,              \* patches: Seq of Repository, version_id(i) = i
    version_repo,       \* AppState.version_repo: "Some" | "None"
    \* PatchingState and the run_patching task
    lpc, index, downloaded_patches, set_idx,
    is_patching, phase, cancel_requested, lastEvent,
    \* UnixSocketPatcherIpc
    stream, is_running, child_process, l2w, w2l, recvCause,
    \* patch worker process
    wpc, widx, wpatches, CANCELLED, wexit,
    \* disk
    versionFile, bckFile, files,
    \* UpdateGameUseCase::apply_patches
    upc, uidx,
    \* start_boot_patch / start_game_patch calls and the tasks they spawn
    cpc, tpc,
    \* history; reported: the (patch, PatchState) pairs receive_progress returned
    dlLog, vfLog, applyLog, applyResult, failure, cancelSent, terminal, reported,
    \* clock, keyring sessions and the paths that read them
    now, ticks, keyring, rpc, rsess, ended,
    \* accounts.json and the repository calls in flight
    accountsFile, apc, aop, aloaded,
    \* HttpOtpListener, its start() calls, server tasks and receivers
    running, shutdown_tx, spc, srv, sig, rx, stopped,
    \* one version file and its .bck sibling as bytes, a set_version call
    verPath, bckPath, svpc, svArg, svOld, svCalls, got,
    \* IntegrityState, one verify_integrity call and its check_integrity
    is_checking, integrity_cancel_requested, cancelled, icpc, manifest,
    pending, results, reads, hashed, icResult, cancelPending,
    \* one apply_patch call: the chunks left, what it created and deleted
    zpc, chunks, created, deleted, zResult,
    \* one read_chunk call: the parser, the bytes under the reader, the result
    rcpc, verify_checksums, reader, rcResult,
    \* one verify_patch call: the entry, the file at file_path, the result
    vpc, patch, patchFile, verified,
    \* the two directions of the IPC stream and what each receive did
    wire, allocated, payloadRead, recvResult,
    \* one HTTP call of the patch server or manifest client and what it did
    hpc, hcall, attempt, answers, slept, hResult, cache, hcalls,
    \* the worker-to-launcher byte stream under recv_internal calls that time out
    sentMsgs, transit, sock, rxpc, rxbuf, rxlen, delivered, timeouts, rxResult,
    \* one parse_patch run inside apply_patch: the patch file, the reader, the Vec of chunks
    zfile, zpos, parsed,
    \* concurrent verify_integrity commands and the reset tasks they spawn
    vcpc, resets

cycleVars == <<orchestrator, batch, version_repo>>
launcherVars == <<lpc, index, downloaded_patches, set_idx>>
stateVars == <<is_patching, phase, cancel_requested, lastEvent>>
ipcVars == <<stream, is_running, child_process, l2w, w2l, recvCause>>
workerVars == <<wpc, widx, wpatches, CANCELLED, wexit>>
diskVars == <<versionFile, bckFile, files>>
useCaseVars == <<upc, uidx>>
commandVars == <<cpc, tpc>>
histVars == <<dlLog, vfLog, applyLog, applyResult, failure, cancelSent, terminal,
             reported>>

sessionVars == <<now, ticks, keyring, rpc, rsess, ended>>
accountVars == <<accountsFile, apc, aop, aloaded>>
otpVars == <<running, shutdown_tx, spc, srv, sig, rx, stopped>>
verFileVars == <<verPath, bckPath, svpc, svArg, svOld, svCalls, got>>
integrityVars == <<is_checking, integrity_cancel_requested, cancelled, icpc, manifest,
                   pending, results, reads, hashed, icResult, cancelPending>>
applyVars == <<zpc, chunks, created, deleted, zResult>>
readChunkVars == <<rcpc, verify_checksums, reader, rcResult>>
verifyVars == <<vpc, patch, patchFile, verified>>
framingVars == <<wire, allocated, payloadRead, recvResult>>
httpVars == <<hpc, hcall, attempt, answers, slept, hResult, cache, hcalls>>
recvVars == <<sentMsgs, transit, sock, rxpc, rxbuf, rxlen, delivered, timeouts, rxResult>>
parseVars == <<zfile, zpos, parsed>>
verifyCallVars == <<vcpc, resets>>
libVars == <<verFileVars, integrityVars, applyVars, readChunkVars, verifyVars, framingVars,
            httpVars, recvVars, parseVars, verifyCallVars>>
appVars == <<sessionVars, accountVars, otpVars, libVars>>
patchVars == <<cycleVars, launcherVars, stateVars, ipcVars, workerVars, diskVars,
               useCaseVars, commandVars, histVars>>

\* What an action of one library call leaves alone: everything but its own group.
exceptVerFile ==
    <<patchVars, integrityVars, applyVars, readChunkVars, verifyVars, framingVars, httpVars,
      recvVars, parseVars, verifyCallVars, sessionVars, accountVars, otpVars>>
exceptIntegrity ==
    <<patchVars, verFileVars, applyVars, readChunkVars, verifyVars, framingVars, httpVars,
      recvVars, parseVars, verifyCallVars, sessionVars, accountVars, otpVars>>
exceptApply ==
    <<patchVars, verFileVars, integrityVars, readChunkVars, verifyVars, framingVars, httpVars,
      recvVars, parseVars, verifyCallVars, sessionVars, accountVars, otpVars>>
exceptReadChunk ==
    <<patchVars, verFileVars, integrityVars, applyVars, verifyVars, framingVars, httpVars,
      recvVars, parseVars, verifyCallVars, sessionVars, accountVars, otpVars>>
exceptVerify ==
    <<patchVars, verFileVars, integrityVars, applyVars, readChunkVars, framingVars, httpVars,
      recvVars, parseVars, verifyCallVars, sessionVars, accountVars, otpVars>>
exceptFraming ==
    <<patchVars, verFileVars, integrityVars, applyVars, readChunkVars, verifyVars, httpVars,
      recvVars, parseVars, verifyCallVars, sessionVars, accountVars, otpVars>>
exceptHttp ==
    <<patchVars, verFileVars, integrityVars, applyVars, readChunkVars, verifyVars,
      framingVars, recvVars, parseVars, verifyCallVars, sessionVars, accountVars, otpVars>>
exceptRecv ==
    <<patchVars, verFileVars, integrityVars, applyVars, readChunkVars, verifyVars,
      framingVars, httpVars, parseVars, verifyCallVars, sessionVars, accountVars, otpVars>>
exceptParse ==
    <<patchVars, verFileVars, integrityVars, readChunkVars, verifyVars, framingVars, httpVars,
      recvVars, verifyCallVars, sessionVars, accountVars, otpVars>>
exceptVerifyCalls ==
    <<patchVars, verFileVars, applyVars, readChunkVars, verifyVars, framingVars, httpVars,
      recvVars, parseVars, sessionVars, accountVars, otpVars>>

vars == <<patchVars, appVars>>

Calls == 1..MaxCalls

version_id(i) == i
repository(i) == batch[i]
PatchIdx == 1..Len(batch)

\* ---- accounts, sessions --------------------------------------------------
\* AccountId: the lower-cased username, entities.rs 457-469
AccountIds == {"a", "b"}
\* The paths that read a cached session: LoginUseCase::execute,
\* start_game_patch / check_game_updates, launch_with_settings.
Paths == {"login", "patch", "launch"}
\* Two repository calls can be in flight at the same time.
Tasks == {"t1", "t2"}
\* The start() calls made on the one HttpOtpListener of AppState; each
\* creates its own pair of channels and, when it gets that far, its own
\* server task.
Starts == 1..MaxStarts

\* Option<T>: absent, or one value.
None == <<>>
Some(x) == <<x>>
\* What a path holds before it has read a session.
NoRead == [account |-> "none", created_at |-> 0, checked_at |-> 0]

\* A repository call: its kind and its argument (an Account or an AccountId).
NoOp == [kind |-> "none", id |-> "none", last_login |-> 0]

\* AccountStore::default(), accounts.rs 11-15 and 29-32
EmptyStore == [accounts |-> <<>>, default_account |-> "None"]

\* ---- version literals and files as bytes -------------------------------
\* The characters a version file holds.
Digits == <<"0", "1", "2", "3", "4", "5", "6", "7", "8", "9">>
\* "{:04}.{:02}.{:02}.{:04}.{:04}", entities.rs 175-188: the literal of the
\* n-th version, n a single digit.
Literal(n) ==
    <<"2", "0", "2", "5", ".", "0", "1", ".", "0", "1", ".",
      "0", "0", "0", "0", ".", "0", "0", "0", Digits[n + 1]>>
\* A path on disk: whether it exists, and its bytes.
File(data) == [exists |-> TRUE, data |-> data]
Absent == [exists |-> FALSE, data |-> <<>>]
\* Result<GameVersion, Error>
Ok(version_string) == [ok |-> TRUE, version_string |-> version_string]
Err == [ok |-> FALSE, version_string |-> <<>>]
NotRead == [read |-> FALSE, result |-> Err]

\* A reader: its stream position and the chunk that starts there, as the
\* size field, the 4 type bytes, the payload bytes and the CRC field (a
\* 32-bit word as its two 16-bit halves).
NoReader == [offset |-> 0, size |-> 0, type |-> <<>>, payload |-> <<>>,
             crc |-> [hi |-> 0, lo |-> 0]]
\* Result<ZiPatchChunk, Error> of read_chunk
NoChunk == [kind |-> "none", offset |-> 0]

\* The PatchEntry fields verify_patch reads, entities.rs 262-277.
NoPatch == [length |-> 0, hash_block_size |-> None, hashes |-> None]

\* The two directions of the local socket: launcher to worker, worker to launcher.
Directions == {"l2w", "w2l"}
NoFrames == [d \in Directions |-> <<>>]
NothingRead == [d \in Directions |-> 0]
NotReceived == [kind |-> "none"]

\* No patch file is open.
NoPatchFile == [magic |-> TRUE, entries |-> <<>>]

\* ---- initial states ----------------------------------------------------
\* The ver file of an installed game tree holds the installed version.
LibIdle ==
    /\ verPath = File(Literal(0))
    /\ bckPath = Absent
    /\ svpc = "idle"
    /\ svArg = Literal(0)
    /\ svOld = Err
    /\ svCalls = 0
    /\ got = NotRead
    /\ is_checking = FALSE
    /\ integrity_cancel_requested = FALSE
    /\ cancelled = FALSE
    /\ icpc = "idle"
    /\ manifest = {}
    /\ pending = {}
    /\ results = {}
    /\ reads = {}
    /\ hashed = {}
    /\ icResult = "none"
    /\ cancelPending = None
    /\ zpc = "idle"
    /\ chunks = <<>>
    /\ created = {}
    /\ deleted = {}
    /\ zResult = "none"
    /\ rcpc = "idle"
    /\ verify_checksums = TRUE
    /\ reader = NoReader
    /\ rcResult = NoChunk
    /\ vpc = "idle"
    /\ patch = NoPatch
    /\ patchFile = Absent
    /\ verified = FALSE
    /\ wire = NoFrames
    /\ allocated = NothingRead
    /\ payloadRead = NothingRead
    /\ recvResult = [d \in Directions |-> NotReceived]
    /\ hpc = "idle"
    /\ hcall = "none"
    /\ attempt = 0
    /\ answers = <<>>
    /\ slept = <<>>
    /\ hResult = "none"
    /\ cache = "absent"
    /\ hcalls = 0
    /\ sentMsgs = <<>>
    /\ transit = <<>>
    /\ sock = <<>>
    /\ rxpc = "idle"
    /\ rxbuf = <<>>
    /\ rxlen = 0
    /\ delivered = <<>>
    /\ timeouts = 0
    /\ rxResult = "none"
    /\ zfile = NoPatchFile
    /\ zpos = 1
    /\ parsed = <<>>
    /\ vcpc = [c \in Calls |-> "idle"]
    /\ resets = 0

\* No session in the keyring, no accounts.json, nothing in flight.
AppIdle ==
    /\ LibIdle
    /\ now = 0
    /\ ticks = 0
    /\ keyring = [a \in AccountIds |-> None]
    /\ rpc = [p \in Paths |-> "idle"]
    /\ rsess = [p \in Paths |-> NoRead]
    /\ ended = [a \in AccountIds |-> FALSE]
    /\ accountsFile = EmptyStore
    /\ apc = [t \in Tasks |-> "idle"]
    /\ aop = [t \in Tasks |-> NoOp]
    /\ aloaded = [t \in Tasks |-> EmptyStore]
    /\ running = FALSE
    /\ shutdown_tx = None
    /\ spc = [s \in Starts |-> "idle"]
    /\ srv = [s \in Starts |-> "none"]
    /\ sig = [s \in Starts |-> "open"]
    /\ rx = [s \in Starts |-> "none"]
    /\ stopped = {}

\* PatchingState::default, an installed game tree, no worker, no scratch file.
InitCommon ==
    /\ AppIdle
    /\ index = 1
    /\ downloaded_patches = <<>>
    /\ set_idx = 1
    /\ is_patching = FALSE
    /\ phase = "Idle"
    /\ cancel_requested = FALSE
    /\ lastEvent = "none"
    /\ stream = "none"
    /\ is_running = FALSE
    /\ child_process = "none"
    /\ l2w = <<>>
    /\ w2l = <<>>
    /\ recvCause = "none"
    /\ wpc = "none"
    /\ widx = 1
    /\ wpatches = <<>>
    /\ CANCELLED = FALSE
    /\ wexit = "none"
    /\ versionFile = [r \in Repos |-> 0]
    /\ bckFile = [r \in Repos |-> -1]
    /\ uidx = 1
    /\ dlLog = <<>>
    /\ vfLog = <<>>
    /\ applyLog = <<>>
    /\ failure = 0
    /\ cancelSent = "no"
    /\ terminal = "none"
    /\ reported = <<>>

\* A start command found a non-empty patch list and spawned run_patching.
InitRunPatching ==
    /\ orchestrator = "run_patching"
    /\ batch \in Batches
    /\ version_repo \in (IF batch \in BootBatches THEN {"Some"} ELSE {"Some", "None"})
    /\ lpc = "spawned"
    /\ upc = "idle"
    /\ cpc = [c \in Calls |-> "idle"]
    /\ tpc = [c \in Calls |-> "none"]
    /\ files = [i \in PatchIdx |-> "absent"]
    /\ applyResult = [i \in PatchIdx |-> "none"]
    /\ InitCommon

\* update_boot / update_game found a non-empty patch list and call apply_patches.
InitUseCase ==
    /\ orchestrator = "use_case"
    /\ batch \in Batches
    /\ version_repo = "Some"
    /\ lpc = "idle"
    /\ upc = "download"
    /\ cpc = [c \in Calls |-> "idle"]
    /\ tpc = [c \in Calls |-> "none"]
    /\ files = [i \in PatchIdx |-> "absent"]
    /\ applyResult = [i \in PatchIdx |-> "none"]
    /\ InitCommon

Init == InitRunPatching \/ InitUseCase

\* ---- sockets and processes --------------------------------------------
\* The worker's end of the socket exists from connect() until the process ends.
WorkerEndOpen == wpc \notin {"none", "start", "exited"}
WorkerAlive == wpc \notin {"none", "exited"}
\* The launcher's end: the listener, then the accepted Stream, until dropped.
LauncherEndOpen == stream \in {"listening", "open"}
\* The worker is inside apply_patches for the batch of a StartPatch.
WorkerInBatch == wpc \in {"loop_top", "check_file", "applying"}

\* emit_error: patching.rs 568-584
EmitError(recoverable) ==
    /\ is_patching' = FALSE
    /\ phase' = "Failed"
    /\ lastEvent' = IF recoverable THEN "patch_error:recoverable" ELSE "patch_error:fatal"
    /\ UNCHANGED cancel_requested

\* Mutant: the flag is left set when the cycle is cancelled.
EmitCancelled_FlagKept ==
    /\ phase' = "Cancelled"
    /\ lastEvent' = "patch_cancelled"
    /\ UNCHANGED <<is_patching, cancel_requested>>

\* emit_cancelled: patching.rs 586-594
EmitCancelled ==
    /\ is_patching' = FALSE
    /\ phase' = "Cancelled"
    /\ lastEvent' = "patch_cancelled"
    /\ UNCHANGED cancel_requested

\* ---- cancel_patch command: patching.rs 252-261 --------------------------
CancelPatch ==
    /\ orchestrator = "run_patching"
    /\ is_patching
    /\ ~cancel_requested
    /\ cancel_requested' = TRUE
    /\ UNCHANGED <<is_patching, phase, lastEvent>>
    /\ UNCHANGED <<appVars, cycleVars, launcherVars, ipcVars, workerVars, diskVars,
                   useCaseVars, commandVars, histVars>>

\* ---- run_patching: patching.rs 282-566 ----------------------------------
\* Initialize state, 295-302
RunInit ==
    /\ lpc = "spawned"
    /\ is_patching' = TRUE
    /\ phase' = "Downloading"
    /\ cancel_requested' = FALSE
    /\ index' = 1
    /\ lpc' = "mkdir"
    /\ UNCHANGED <<lastEvent, downloaded_patches, set_idx>>
    /\ UNCHANGED <<appVars, cycleVars, ipcVars, workerVars, diskVars, useCaseVars,
                   commandVars, histVars>>

\* Create temp directory, 305-308
RunCreateTempDir ==
    /\ lpc = "mkdir"
    /\ \/ /\ lpc' = "dl_top"
          /\ UNCHANGED stateVars
       \/ /\ EmitError(FALSE)
          /\ lpc' = "return"
    /\ UNCHANGED <<index, downloaded_patches, set_idx>>
    /\ UNCHANGED <<appVars, cycleVars, ipcVars, workerVars, diskVars, useCaseVars,
                   commandVars, histVars>>

\* Top of the download loop, 313-346: cancellation check, state update,
\* progress event; the download request starts.
RunDownloadTop ==
    /\ lpc = "dl_top"
    /\ index <= Len(batch)
    /\ IF cancel_requested
       THEN /\ EmitCancelled
            /\ lpc' = "return"
            /\ UNCHANGED dlLog
       ELSE /\ phase' = "Downloading"
            /\ lastEvent' = "patch_progress"
            /\ lpc' = "downloading"
            /\ dlLog' = Append(dlLog, index)
            /\ UNCHANGED <<is_patching, cancel_requested>>
    /\ UNCHANGED <<index, downloaded_patches, set_idx>>
    /\ UNCHANGED <<vfLog, applyLog, applyResult, failure, cancelSent, terminal, reported>>
    /\ UNCHANGED <<appVars, cycleVars, ipcVars, workerVars, diskVars, useCaseVars, commandVars>>

\* One pass of the chunk loop of download_patch, downloader.rs 120-128: the
\* next chunk of the response is written to the file and the progress
\* callback runs. The loop reads nothing but the response stream.
RunDownloadChunk ==
    /\ lpc = "downloading"
    /\ files[index] # "partial"
    /\ files' = [files EXCEPT ![index] = "partial"]
    /\ UNCHANGED <<index, downloaded_patches, set_idx, lpc, versionFile, bckFile>>
    /\ UNCHANGED <<appVars, cycleVars, stateVars, ipcVars, workerVars, useCaseVars,
                   commandVars, histVars>>

\* download_patch returns, 386-409 (downloader.rs 73-138): the file on disk
\* is what the server sent ("complete"), something else of any size
\* ("corrupt"), or a partial / missing file when the transfer failed.
RunDownloadEnd ==
    /\ lpc = "downloading"
    /\ \/ /\ \E content \in {"complete", "corrupt"} :
                files' = [files EXCEPT ![index] = content]
          /\ phase' = "Verifying"
          /\ lastEvent' = "patch_progress"
          /\ lpc' = "verifying"
          /\ UNCHANGED <<is_patching, cancel_requested, failure>>
       \/ /\ \E content \in {"absent", "partial"} :
                files' = [files EXCEPT ![index] = content]
          /\ EmitError(TRUE)
          /\ failure' = index
          /\ lpc' = "return"
    /\ UNCHANGED <<index, downloaded_patches, set_idx, versionFile, bckFile>>
    /\ UNCHANGED <<dlLog, vfLog, applyLog, applyResult, cancelSent, terminal, reported>>
    /\ UNCHANGED <<appVars, cycleVars, ipcVars, workerVars, useCaseVars, commandVars>>

\* verify_patch: downloader.rs 141-167 (size, then block hashes).
VerifyResult(content) == content = "complete"

\* verify_patch returns, 411-424
RunVerifyEnd ==
    /\ lpc = "verifying"
    /\ vfLog' = Append(vfLog, index)
    /\ \/ /\ VerifyResult(files[index])
          /\ downloaded_patches' = Append(downloaded_patches, index)
          /\ index' = index + 1
          /\ lpc' = "dl_top"
          /\ UNCHANGED <<stateVars, failure>>
       \/ /\ ~VerifyResult(files[index])
          /\ EmitError(TRUE)
          /\ failure' = index
          /\ lpc' = "return"
          /\ UNCHANGED <<downloaded_patches, index>>
       \/ \* Err(e): the file could not be read
          /\ EmitError(TRUE)
          /\ failure' = index
          /\ lpc' = "return"
          /\ UNCHANGED <<downloaded_patches, index>>
    /\ UNCHANGED <<set_idx, dlLog, applyLog, applyResult, cancelSent, terminal, reported>>
    /\ UNCHANGED <<appVars, cycleVars, ipcVars, workerVars, diskVars, useCaseVars, commandVars>>

\* All patches downloaded, 426-430
RunEnterApplying ==
    /\ lpc = "dl_top"
    /\ index > Len(batch)
    /\ phase' = "Applying"
    /\ lpc' = "spawn"
    /\ UNCHANGED <<is_patching, cancel_requested, lastEvent>>
    /\ UNCHANGED <<index, downloaded_patches, set_idx>>
    /\ UNCHANGED <<appVars, cycleVars, ipcVars, workerVars, diskVars, useCaseVars,
                   commandVars, histVars>>

\* ---- UnixSocketPatcherIpc: ipc/client.rs --------------------------------
\* Drop for UnixSocketPatcherIpc, client.rs 297-312: the Stream is dropped
\* and a child still held by the client is killed. A worker killed inside
\* apply_patch leaves that patch partly applied.
WorkerEnds(code) ==
    /\ wpc' = "exited"
    /\ wexit' = code
    /\ applyResult' = IF wpc = "applying"
                      THEN [applyResult EXCEPT ![widx] = "partial"]
                      ELSE applyResult
    /\ UNCHANGED <<widx, wpatches, CANCELLED>>

\* spawn_with_binary, client.rs 92-114: remove a stale socket file and bind
\* the listener on the path keyed by the launcher's PID.
RunBind ==
    /\ lpc = "spawn"
    /\ \/ /\ stream' = "listening"
          /\ lpc' = "spawn_child"
          /\ UNCHANGED stateVars
       \/ \* binary not found or bind failed: patching.rs 435-438
          /\ EmitError(FALSE)
          /\ lpc' = "return"
          /\ UNCHANGED stream
    /\ UNCHANGED <<index, downloaded_patches, set_idx>>
    /\ UNCHANGED <<is_running, child_process, l2w, w2l, recvCause>>
    /\ UNCHANGED <<appVars, cycleVars, workerVars, diskVars, useCaseVars, commandVars, histVars>>

\* spawn_with_binary, client.rs 116-126: start the worker process with the
\* socket path as its argument. When Command::spawn fails the listener is
\* dropped with the early return.
RunSpawn ==
    /\ lpc = "spawn_child"
    /\ \/ /\ wpc' = "start"
          /\ lpc' = "accept"
          /\ UNCHANGED <<stateVars, stream>>
       \/ /\ stream' = "closed"
          /\ EmitError(FALSE)
          /\ lpc' = "return"
          /\ UNCHANGED wpc
    /\ UNCHANGED <<index, downloaded_patches, set_idx>>
    /\ UNCHANGED <<is_running, child_process, l2w, w2l, recvCause>>
    /\ UNCHANGED <<widx, wpatches, CANCELLED, wexit>>
    /\ UNCHANGED <<appVars, cycleVars, diskVars, useCaseVars, commandVars, histVars>>

\* spawn_with_binary, client.rs 128-143: accept within CONNECTION_TIMEOUT and
\* build the client (is_running = true). On timeout the listener and the
\* Child handle are dropped; dropping a Child does not kill it.
RunAccept ==
    /\ lpc = "accept"
    /\ \/ /\ WorkerEndOpen
          /\ stream' = "open"
          /\ is_running' = TRUE
          /\ child_process' = "held"
          /\ lpc' = "read_ready"
          /\ UNCHANGED stateVars
       \/ /\ ~WorkerEndOpen
          /\ stream' = "closed"
          /\ EmitError(FALSE)
          /\ lpc' = "return"
          /\ UNCHANGED <<is_running, child_process>>
    /\ UNCHANGED <<index, downloaded_patches, set_idx>>
    /\ UNCHANGED <<l2w, w2l, recvCause>>
    /\ UNCHANGED <<appVars, cycleVars, workerVars, diskVars, useCaseVars, commandVars, histVars>>

\* Mutant: whatever the peer sends first is taken for Ready.
OnUnexpectedResponse_Proceed ==
    /\ l2w' = Append(l2w, "Hello")
    /\ lpc' = "start_patch"
    /\ UNCHANGED stateVars

\* The first response is not Ready, client.rs 151-156: "expected Ready
\* message", spawn returns Err.
OnUnexpectedResponse ==
    /\ EmitError(FALSE)
    /\ lpc' = "return"
    /\ UNCHANGED l2w

\* spawn_with_binary, client.rs 145-164: read the first response with
\* recv_internal(RECV_TIMEOUT), require Ready, send Hello.
RunReadReady ==
    /\ lpc = "read_ready"
    /\ \/ /\ w2l # <<>>
          /\ Head(w2l).type = "Ready"
          /\ w2l' = Tail(w2l)
          /\ IF WorkerEndOpen
             THEN /\ l2w' = Append(l2w, "Hello")
                  /\ lpc' = "start_patch"
                  /\ UNCHANGED stateVars
             ELSE /\ EmitError(FALSE)
                  /\ lpc' = "return"
                  /\ UNCHANGED l2w
       \/ /\ w2l # <<>>
          /\ Head(w2l).type # "Ready"
          /\ w2l' = Tail(w2l)
          /\ OnUnexpectedResponse
       \/ \* nothing arrives within RECV_TIMEOUT, or the peer ended before it
          \* wrote anything (read header error): recv_internal returns Err
          /\ w2l = <<>>
          /\ EmitError(FALSE)
          /\ lpc' = "return"
          /\ UNCHANGED <<l2w, w2l>>
    /\ UNCHANGED <<index, downloaded_patches, set_idx>>
    /\ UNCHANGED <<stream, is_running, child_process, recvCause>>
    /\ UNCHANGED <<appVars, cycleVars, workerVars, diskVars, useCaseVars, commandVars, histVars>>

\* start_patch, client.rs 316-324 and patching.rs 441-456
RunStartPatch ==
    /\ lpc = "start_patch"
    /\ IF WorkerEndOpen
       THEN /\ l2w' = Append(l2w, "StartPatch")
            /\ lpc' = "poll_top"
            /\ UNCHANGED stateVars
       ELSE /\ EmitError(FALSE)
            /\ lpc' = "shutdown_exit"
            /\ UNCHANGED l2w
    /\ UNCHANGED <<index, downloaded_patches, set_idx>>
    /\ UNCHANGED <<stream, is_running, child_process, w2l, recvCause>>
    /\ UNCHANGED <<appVars, cycleVars, workerVars, diskVars, useCaseVars, commandVars, histVars>>

\* A PatcherResponse frame; idx is patch_index + 1 (0 when the variant has none).
Msg(type, idx) == [type |-> type, idx |-> idx]

\* Top of the poll loop, patching.rs 459-466 and the liveness check of
\* receive_progress, client.rs 326-330 with check_child_alive 229-247.
RunPollTop ==
    /\ lpc = "poll_top"
    /\ IF cancel_requested
       THEN \* patcher.cancel() (its error is ignored), then emit_cancelled
            /\ l2w' = IF WorkerEndOpen THEN Append(l2w, "Cancel") ELSE l2w
            /\ cancelSent' = IF ~WorkerEndOpen THEN cancelSent
                              ELSE IF WorkerInBatch THEN "in_batch" ELSE "idle"
            /\ EmitCancelled
            /\ lpc' = "shutdown_exit"
            /\ UNCHANGED <<is_running, recvCause>>
       ELSE IF wpc = "exited"
       THEN \* try_wait reports the exit: Err(Ipc("patcher process died"))
            /\ is_running' = FALSE
            /\ recvCause' = "died"
            /\ EmitError(FALSE)
            /\ lpc' = "shutdown_exit"
            /\ UNCHANGED <<l2w, cancelSent>>
       ELSE /\ lpc' = "recv_wait"
            /\ recvCause' = "pending"
            /\ UNCHANGED <<stateVars, l2w, is_running, cancelSent>>
    /\ UNCHANGED <<index, downloaded_patches, set_idx>>
    /\ UNCHANGED <<stream, child_process, w2l>>
    /\ UNCHANGED <<dlLog, vfLog, applyLog, applyResult, failure, terminal, reported>>
    /\ UNCHANGED <<appVars, cycleVars, workerVars, diskVars, useCaseVars, commandVars>>

\* What run_patching does with Ok(None) from receive_progress: patching.rs 515-518
OnRecvNone ==
    /\ lpc' = "shutdown_ok"
    /\ UNCHANGED stateVars

\* Mutant: end of stream is taken for "no progress yet", like a timeout.
OnRecvEof_AsTimeout ==
    /\ recvCause' = "timeout"
    /\ OnRecvNone

\* What receive_progress and run_patching do when the read hits end of
\* stream: client.rs 201-204 and 339, patching.rs 524-528
OnRecvEof ==
    /\ recvCause' = "eof"
    /\ EmitError(FALSE)
    /\ lpc' = "shutdown_exit"

\* Mutant: the two states are exchanged.
progress_state_Exchanged(type) ==
    IF type = "PatchCompleted" THEN "Installing" ELSE "Completed"

\* The PatchState of the PatchProgress that receive_progress returns: the
\* state field of a Progress, which the worker sets to Installing (main.rs
\* 209), and Completed for a PatchCompleted: client.rs 344-382
progress_state(type) ==
    IF type = "PatchCompleted" THEN "Completed" ELSE "Installing"

\* recv_internal(100 ms) returns, client.rs 333-395, and the match of
\* run_patching on the result, patching.rs 468-533.
RunRecv ==
    /\ lpc = "recv_wait"
    /\ \/ /\ w2l # <<>>
          /\ w2l' = Tail(w2l)
          /\ recvCause' = Head(w2l).type
          /\ \/ /\ Head(w2l).type = "Progress"
                /\ phase' = "Applying"
                /\ lastEvent' = "patch_progress"
                /\ lpc' = "poll_top"
                /\ UNCHANGED <<is_patching, cancel_requested>>
             \/ /\ Head(w2l).type = "PatchCompleted"
                /\ phase' = "Completed"
                /\ lastEvent' = "patch_completed"
                /\ lpc' = "poll_top"
                /\ UNCHANGED <<is_patching, cancel_requested>>
             \/ /\ Head(w2l).type = "AllCompleted"
                /\ OnRecvNone
             \/ /\ Head(w2l).type = "Error"
                /\ EmitError(FALSE)
                /\ lpc' = "shutdown_exit"
             \/ /\ Head(w2l).type = "Cancelled"
                /\ EmitCancelled
                /\ lpc' = "shutdown_exit"
             \/ /\ Head(w2l).type = "Ready"
                /\ EmitError(FALSE)
                /\ lpc' = "shutdown_exit"
       \/ \* nothing arrives within 100 ms: Err(Ipc("recv timeout")) becomes Ok(None)
          /\ w2l = <<>>
          /\ WorkerEndOpen
          /\ recvCause' = "timeout"
          /\ OnRecvNone
          /\ UNCHANGED w2l
       \/ \* the worker's end is closed: Err(Ipc("read header error"))
          /\ w2l = <<>>
          /\ ~WorkerEndOpen
          /\ OnRecvEof
          /\ UNCHANGED w2l
    /\ UNCHANGED <<index, downloaded_patches, set_idx>>
    /\ reported' = IF w2l # <<>> /\ Head(w2l).type \in {"Progress", "PatchCompleted"}
                    THEN Append(reported, [idx |-> Head(w2l).idx,
                                           state |-> progress_state(Head(w2l).type)])
                    ELSE reported
    /\ UNCHANGED <<stream, is_running, child_process, l2w>>
    /\ UNCHANGED <<dlLog, vfLog, applyLog, applyResult, failure, cancelSent, terminal>>
    /\ UNCHANGED <<appVars, cycleVars, workerVars, diskVars, useCaseVars, commandVars>>

\* shutdown, client.rs 250-261: no-op when not running; a failed send
\* returns early; otherwise Shutdown is sent, the Stream is dropped and the
\* Child is taken out of the client.
RunShutdown ==
    /\ lpc \in {"shutdown_ok", "shutdown_exit"}
    /\ IF is_running /\ WorkerEndOpen
       THEN /\ l2w' = Append(l2w, "Shutdown")
            /\ is_running' = FALSE
            /\ stream' = "closed"
            /\ child_process' = "taken"
            /\ lpc' = IF lpc = "shutdown_ok" THEN "wait_ok" ELSE "wait_exit"
       ELSE /\ lpc' = IF lpc = "shutdown_ok" THEN "set_versions" ELSE "return"
            /\ UNCHANGED <<l2w, is_running, stream, child_process>>
    /\ UNCHANGED <<index, downloaded_patches, set_idx, w2l, recvCause>>
    /\ UNCHANGED <<appVars, cycleVars, stateVars, workerVars, diskVars, useCaseVars,
                   commandVars, histVars>>

\* shutdown, client.rs 263-293: child.wait() returns or the 5 s timeout fires.
RunShutdownWait ==
    /\ lpc \in {"wait_ok", "wait_exit"}
    /\ lpc' = IF lpc = "wait_ok" THEN "set_versions" ELSE "return"
    /\ UNCHANGED <<index, downloaded_patches, set_idx>>
    /\ UNCHANGED <<appVars, cycleVars, stateVars, ipcVars, workerVars, diskVars,
                   useCaseVars, commandVars, histVars>>

\* ---- FileVersionRepository::set_version: patch/version.rs 71-89 ----------
\* Copy the version file to its .bck sibling, then write the new literal.
\* Either step can fail with an I/O error; a failed copy leaves both files
\* as they were, a write refused after the copy leaves the old literal.
SetVersionOutcomes == {"ok", "copy_failed", "write_failed"}

set_version(repo, version, outcome) ==
    /\ bckFile' = IF outcome = "copy_failed" THEN bckFile
                  ELSE [bckFile EXCEPT ![repo] = versionFile[repo]]
    /\ versionFile' = IF outcome = "ok" THEN [versionFile EXCEPT ![repo] = version]
                      ELSE versionFile

\* get_version: patch/version.rs 59-68
get_version(repo) == versionFile[repo]

\* ---- run_patching, after the poll loop ----------------------------------
\* Update version files, patching.rs 538-550: one set_version per downloaded
\* patch; an Err is printed and the loop goes on.
RunSetVersions ==
    /\ lpc = "set_versions"
    /\ IF version_repo = "Some" /\ set_idx <= Len(downloaded_patches)
       THEN /\ \E outcome \in SetVersionOutcomes :
                 set_version(repository(downloaded_patches[set_idx]),
                             version_id(downloaded_patches[set_idx]), outcome)
            /\ set_idx' = set_idx + 1
            /\ UNCHANGED lpc
       ELSE /\ lpc' = "cleanup"
            /\ UNCHANGED <<set_idx, versionFile, bckFile>>
    /\ UNCHANGED <<index, downloaded_patches, files>>
    /\ UNCHANGED <<appVars, cycleVars, stateVars, ipcVars, workerVars, useCaseVars,
                   commandVars, histVars>>

\* Clean up temp files, patching.rs 552-556
RunCleanup ==
    /\ lpc = "cleanup"
    /\ files' = [i \in PatchIdx |->
                    IF \E k \in 1..Len(downloaded_patches) : downloaded_patches[k] = i
                    THEN "absent" ELSE files[i]]
    /\ lpc' = "mark_completed"
    /\ UNCHANGED <<index, downloaded_patches, set_idx, versionFile, bckFile>>
    /\ UNCHANGED <<appVars, cycleVars, stateVars, ipcVars, workerVars, useCaseVars,
                   commandVars, histVars>>

\* Mark as completed, patching.rs 558-565
RunMarkCompleted ==
    /\ lpc = "mark_completed"
    /\ is_patching' = FALSE
    /\ phase' = "Completed"
    /\ lastEvent' = "patch_all_completed"
    /\ lpc' = "return"
    /\ UNCHANGED <<cancel_requested, index, downloaded_patches, set_idx>>
    /\ UNCHANGED <<appVars, cycleVars, ipcVars, workerVars, diskVars, useCaseVars,
                   commandVars, histVars>>

\* run_patching returns: the patcher client, if any, is dropped (client.rs 297-312).
RunReturn ==
    /\ lpc = "return"
    /\ lpc' = "done"
    /\ stream' = IF stream = "none" THEN "none" ELSE "closed"
    /\ IF child_process = "held" /\ WorkerAlive
       THEN WorkerEnds("killed")
       ELSE UNCHANGED <<workerVars, applyResult>>
    /\ child_process' = IF child_process = "held" THEN "taken" ELSE child_process
    /\ UNCHANGED <<index, downloaded_patches, set_idx>>
    /\ UNCHANGED <<is_running, l2w, w2l, recvCause>>
    /\ UNCHANGED <<dlLog, vfLog, applyLog, failure, cancelSent, terminal, reported>>
    /\ UNCHANGED <<appVars, cycleVars, stateVars, diskVars, useCaseVars, commandVars>>

\* ---- patch worker: apps/gaveloc_patcher/src/main.rs ---------------------
\* A send_message on a socket whose peer is gone fails (main.rs 132-143).
WorkerCanSend == LauncherEndOpen

\* connect to the launcher's socket, main.rs 50-57
WConnect ==
    /\ wpc = "start"
    /\ IF LauncherEndOpen
       THEN /\ wpc' = "connected"
            /\ UNCHANGED wexit
       ELSE /\ wpc' = "exited"
            /\ wexit' = "error"
    /\ UNCHANGED <<widx, wpatches, CANCELLED>>
    /\ UNCHANGED <<appVars, cycleVars, launcherVars, stateVars, ipcVars, diskVars,
                   useCaseVars, commandVars, histVars>>

\* Send Ready, main.rs 61-62
WSendReady ==
    /\ wpc = "connected"
    /\ IF WorkerCanSend
       THEN /\ w2l' = Append(w2l, Msg("Ready", 0))
            /\ wpc' = "recv"
            /\ UNCHANGED wexit
       ELSE /\ wpc' = "exited"
            /\ wexit' = "error"
            /\ UNCHANGED w2l
    /\ UNCHANGED <<widx, wpatches, CANCELLED>>
    /\ UNCHANGED <<stream, is_running, child_process, l2w, recvCause>>
    /\ UNCHANGED <<appVars, cycleVars, launcherVars, stateVars, diskVars,
                   useCaseVars, commandVars, histVars>>

\* MAX_MESSAGE_SIZE: ipc/protocol.rs 92 (16 MB)
MAX_MESSAGE_SIZE == 16777216

\* PatcherRequest, ipc/protocol.rs 15-37, and the frames a peer can put on
\* the socket: a request, a header announcing more than MAX_MESSAGE_SIZE
\* bytes, a payload that is no bincode PatcherRequest.
Requests == {"Hello", "StartPatch", "Cancel", "Shutdown"}
Frames == Requests \cup {"Oversized", "Undecodable"}

\* The length field of a frame's header (serialize_message, protocol.rs 95-104).
FrameLen(f) == IF f = "Oversized" THEN MAX_MESSAGE_SIZE + 1 ELSE 64

\* recv_message, main.rs 146-172: the length check, then deserialize_message.
recv_message(f) ==
    IF FrameLen(f) > MAX_MESSAGE_SIZE THEN "Err"
    ELSE IF f \notin Requests THEN "Err"
    ELSE f

\* Main message loop, main.rs 65-125: one recv_message and its match arm.
\* apply_patches is awaited inside the StartPatch arm, so no request is
\* read while a batch is being applied.
WRecv ==
    /\ wpc = "recv"
    /\ \/ /\ l2w # <<>>
          /\ l2w' = Tail(l2w)
          /\ \/ /\ recv_message(Head(l2w)) = "Err"
                \* "connection error, exiting", then Ok(()), main.rs 68-72, 127-128
                /\ wpc' = "exited"
                /\ wexit' = "ok"
                /\ UNCHANGED <<widx, wpatches, CANCELLED>>
             \/ /\ recv_message(Head(l2w)) = "Hello"
                /\ UNCHANGED workerVars
             \/ /\ recv_message(Head(l2w)) = "StartPatch"
                /\ CANCELLED' = FALSE
                /\ wpatches' = downloaded_patches
                /\ widx' = 1
                /\ wpc' = "loop_top"
                /\ UNCHANGED wexit
             \/ /\ recv_message(Head(l2w)) = "Cancel"
                /\ CANCELLED' = TRUE
                /\ UNCHANGED <<wpc, widx, wpatches, wexit>>
             \/ /\ recv_message(Head(l2w)) = "Shutdown"
                /\ wpc' = "exited"
                /\ wexit' = "ok"
                /\ UNCHANGED <<widx, wpatches, CANCELLED>>
       \/ \* connection closed: "connection error, exiting", main.rs 68-72
          /\ l2w = <<>>
          /\ ~LauncherEndOpen
          /\ wpc' = "exited"
          /\ wexit' = "ok"
          /\ UNCHANGED <<l2w, widx, wpatches, CANCELLED>>
    /\ UNCHANGED <<stream, is_running, child_process, w2l, recvCause>>
    /\ UNCHANGED <<appVars, cycleVars, launcherVars, stateVars, diskVars,
                   useCaseVars, commandVars, histVars>>

\* apply_patches, main.rs 183-213: loop condition, CANCELLED check, Progress.
WLoopTop ==
    /\ wpc = "loop_top"
    /\ IF widx > Len(wpatches) \/ CANCELLED
       THEN /\ wpc' = "finish_ok"
            /\ UNCHANGED w2l
       ELSE IF WorkerCanSend
       THEN /\ w2l' = Append(w2l, Msg("Progress", wpatches[widx]))
            /\ wpc' = "check_file"
       ELSE /\ wpc' = "finish_err"
            /\ UNCHANGED w2l
    /\ UNCHANGED <<widx, wpatches, CANCELLED, wexit>>
    /\ UNCHANGED <<stream, is_running, child_process, l2w, recvCause>>
    /\ UNCHANGED <<appVars, cycleVars, launcherVars, stateVars, diskVars,
                   useCaseVars, commandVars, histVars>>

\* Mutant: the loop does not advance to the next PatchEntry.
WPatchCompleted_NoAdvance ==
    IF WorkerCanSend
    THEN /\ w2l' = Append(w2l, Msg("PatchCompleted", wpatches[widx]))
         /\ widx' = widx
         /\ wpc' = "loop_top"
    ELSE /\ wpc' = "finish_err"
         /\ UNCHANGED <<w2l, widx>>

\* After a patch: PatchCompleted is sent and the loop advances, main.rs
\* 228-236 and 253-260; a failed send ends apply_patches with Err.
WPatchCompleted ==
    IF WorkerCanSend
    THEN /\ w2l' = Append(w2l, Msg("PatchCompleted", wpatches[widx]))
         /\ widx' = widx + 1
         /\ wpc' = "loop_top"
    ELSE /\ wpc' = "finish_err"
         /\ UNCHANGED <<w2l, widx>>

\* apply_patches, main.rs 215-247: a missing patch file is skipped,
\* otherwise apply_patch starts on the blocking pool.
WCheckFile ==
    /\ wpc = "check_file"
    /\ IF files[wpatches[widx]] = "absent"
       THEN /\ applyResult' = [applyResult EXCEPT ![wpatches[widx]] = "skipped"]
            /\ WPatchCompleted
            /\ UNCHANGED applyLog
       ELSE /\ applyLog' = Append(applyLog, wpatches[widx])
            /\ applyResult' = [applyResult EXCEPT ![wpatches[widx]] = "running"]
            /\ wpc' = "applying"
            /\ UNCHANGED <<w2l, widx>>
    /\ UNCHANGED <<wpatches, CANCELLED, wexit>>
    /\ UNCHANGED <<stream, is_running, child_process, l2w, recvCause>>
    /\ UNCHANGED <<dlLog, vfLog, failure, cancelSent, terminal, reported>>
    /\ UNCHANGED <<appVars, cycleVars, launcherVars, stateVars, diskVars,
                   useCaseVars, commandVars>>

\* Mutant: a failed apply_patch is logged and the loop goes on.
WApplyFailed_Continue ==
    /\ wpc' = "loop_top"
    /\ widx' = widx + 1
    /\ UNCHANGED w2l

\* A failed apply_patch ends the batch: main.rs 262-265
WApplyFailed ==
    /\ wpc' = "finish_err"
    /\ UNCHANGED <<w2l, widx>>

\* apply_patch returns, main.rs 249-266
WApplyEnd ==
    /\ wpc = "applying"
    /\ \/ /\ applyResult' = [applyResult EXCEPT ![wpatches[widx]] = "ok"]
          /\ WPatchCompleted
          /\ UNCHANGED failure
       \/ /\ applyResult' = [applyResult EXCEPT ![wpatches[widx]] = "failed"]
          /\ failure' = wpatches[widx]
          /\ WApplyFailed
    /\ UNCHANGED <<wpatches, CANCELLED, wexit>>
    /\ UNCHANGED <<stream, is_running, child_process, l2w, recvCause>>
    /\ UNCHANGED <<dlLog, vfLog, applyLog, cancelSent, terminal, reported>>
    /\ UNCHANGED <<appVars, cycleVars, launcherVars, stateVars, diskVars,
                   useCaseVars, commandVars>>

\* The terminal message of a batch, main.rs 93-111: Cancelled or
\* AllCompleted after Ok, Error after Err; a failed send ends main with Err.
WFinish ==
    /\ wpc \in {"finish_ok", "finish_err"}
    /\ IF WorkerCanSend
       THEN /\ LET type == IF wpc = "finish_err" THEN "Error"
                           ELSE IF CANCELLED THEN "Cancelled" ELSE "AllCompleted"
               IN  /\ w2l' = Append(w2l, Msg(type, 0))
                   /\ terminal' = type
            /\ wpc' = "recv"
            /\ UNCHANGED wexit
       ELSE /\ wpc' = "exited"
            /\ wexit' = "error"
            /\ UNCHANGED <<w2l, terminal>>
    /\ UNCHANGED <<widx, wpatches, CANCELLED>>
    /\ UNCHANGED <<stream, is_running, child_process, l2w, recvCause>>
    /\ UNCHANGED <<dlLog, vfLog, applyLog, applyResult, failure, cancelSent, reported>>
    /\ UNCHANGED <<appVars, cycleVars, launcherVars, stateVars, diskVars,
                   useCaseVars, commandVars>>

\* The worker process disappears (crash, kill -9, OOM).
WorkerDies ==
    /\ WorkerAlive
    /\ WorkerEnds("signal")
    /\ UNCHANGED <<dlLog, vfLog, applyLog, failure, cancelSent, terminal, reported>>
    /\ UNCHANGED <<appVars, cycleVars, launcherVars, stateVars, ipcVars, diskVars,
                   useCaseVars, commandVars>>

\* ---- UpdateGameUseCase::apply_patches: use_cases/update_game.rs 188-307 --
\* download_patch for patch uidx, 209-243
UDownload ==
    /\ upc = "download"
    /\ dlLog' = Append(dlLog, uidx)
    /\ \/ /\ \E content \in {"complete", "corrupt"} :
                files' = [files EXCEPT ![uidx] = content]
          /\ upc' = "verify"
          /\ UNCHANGED failure
       \/ /\ \E content \in {"absent", "partial"} :
                files' = [files EXCEPT ![uidx] = content]
          /\ failure' = uidx
          /\ upc' = "failed"
    /\ UNCHANGED <<uidx, versionFile, bckFile>>
    /\ UNCHANGED <<vfLog, applyLog, applyResult, cancelSent, terminal, reported>>
    /\ UNCHANGED <<appVars, cycleVars, launcherVars, stateVars, ipcVars, workerVars, commandVars>>

\* verify_patch, 245-262; when it passes apply_patch starts on the blocking
\* pool, 264-284
UVerify ==
    /\ upc = "verify"
    /\ vfLog' = Append(vfLog, uidx)
    /\ \/ /\ VerifyResult(files[uidx])
          /\ applyLog' = Append(applyLog, uidx)
          /\ applyResult' = [applyResult EXCEPT ![uidx] = "running"]
          /\ upc' = "apply"
          /\ UNCHANGED <<files, failure>>
       \/ /\ ~VerifyResult(files[uidx])
          /\ files' = [files EXCEPT ![uidx] = "absent"]
          /\ failure' = uidx
          /\ upc' = "failed"
          /\ UNCHANGED <<applyLog, applyResult>>
       \/ \* Err(e) from verify_patch
          /\ failure' = uidx
          /\ upc' = "failed"
          /\ UNCHANGED <<files, applyLog, applyResult>>
    /\ UNCHANGED <<uidx, versionFile, bckFile>>
    /\ UNCHANGED <<dlLog, cancelSent, terminal, reported>>
    /\ UNCHANGED <<appVars, cycleVars, launcherVars, stateVars, ipcVars, workerVars, commandVars>>

\* What follows a successful apply_patch: 288 (the version file is next)
UAfterApplyOk == "set_version"

\* apply_patch returns, 282-286
UApplyEnd ==
    /\ upc = "apply"
    /\ \/ /\ applyResult' = [applyResult EXCEPT ![uidx] = "ok"]
          /\ upc' = UAfterApplyOk
          /\ UNCHANGED failure
       \/ /\ applyResult' = [applyResult EXCEPT ![uidx] = "failed"]
          /\ failure' = uidx
          /\ upc' = "failed"
    /\ UNCHANGED <<uidx, dlLog, vfLog, applyLog, cancelSent, terminal, reported>>
    /\ UNCHANGED <<appVars, cycleVars, launcherVars, stateVars, ipcVars, workerVars,
                   diskVars, commandVars>>

\* Update version file after successful patch, 288-291
USetVersion ==
    /\ upc = "set_version"
    /\ \E outcome \in SetVersionOutcomes :
          /\ set_version(repository(uidx), version_id(uidx), outcome)
          /\ upc' = IF outcome = "ok" THEN "remove" ELSE "failed"
    /\ UNCHANGED <<uidx, files>>
    /\ UNCHANGED <<appVars, cycleVars, launcherVars, stateVars, ipcVars, workerVars,
                   commandVars, histVars>>

\* Clean up the patch file and advance, 293-306
UNextPatch ==
    /\ upc = "remove"
    /\ files' = [files EXCEPT ![uidx] = "absent"]
    /\ uidx' = uidx + 1
    /\ upc' = IF uidx + 1 > Len(batch) THEN "completed" ELSE "download"
    /\ UNCHANGED <<versionFile, bckFile>>
    /\ UNCHANGED <<appVars, cycleVars, launcherVars, stateVars, ipcVars, workerVars,
                   commandVars, histVars>>

\* ---- specification of one update cycle ------------------------------------
Launcher ==
    \/ CancelPatch
    \/ RunInit
    \/ RunCreateTempDir
    \/ RunDownloadTop
    \/ RunDownloadChunk
    \/ RunDownloadEnd
    \/ RunVerifyEnd
    \/ RunEnterApplying
    \/ RunBind
    \/ RunSpawn
    \/ RunAccept
    \/ RunReadReady
    \/ RunStartPatch
    \/ RunPollTop
    \/ RunRecv
    \/ RunShutdown
    \/ RunShutdownWait
    \/ RunSetVersions
    \/ RunCleanup
    \/ RunMarkCompleted
    \/ RunReturn

Worker ==
    \/ WConnect
    \/ WSendReady
    \/ WRecv
    \/ WLoopTop
    \/ WCheckFile
    \/ WApplyEnd
    \/ WFinish
    \/ WorkerDies

UseCase ==
    \/ UDownload
    \/ UVerify
    \/ UApplyEnd
    \/ USetVersion
    \/ UNextPatch

Next == Launcher \/ Worker \/ UseCase

Spec == Init /\ [][Next]_vars

\* run_patching is a spawned task on the runtime and every await in it is
\* bounded: HTTP requests by the client timeouts (network.rs 41-48), accept
\* by CONNECTION_TIMEOUT, the Ready read by RECV_TIMEOUT, each poll by 100 ms
\* and the wait for the child by 5 s (client.rs 263-293). So the task keeps
\* taking steps; nothing is assumed about the worker.
MaxLiveBatchLen == 1
InitCycleLive == Init /\ Len(batch) <= MaxLiveBatchLen
SpecCycleLive == InitCycleLive /\ [][Next]_vars /\ WF_vars(Launcher)

\* ---- start_boot_patch / start_game_patch: patching.rs 119-249 ------------
\* Each call checks is_patching under a read lock, releases the lock, asks
\* the patch server for the patch list and then spawns run_patching, which
\* sets is_patching when it first runs.
InitCommands ==
    /\ orchestrator = "commands"
    /\ batch = <<>>
    /\ version_repo = "Some"
    /\ lpc = "idle"
    /\ upc = "idle"
    /\ cpc = [c \in Calls |-> "idle"]
    /\ tpc = [c \in Calls |-> "none"]
    /\ files = <<>>
    /\ applyResult = <<>>
    /\ InitCommon

\* "Check if already patching", patching.rs 129-135 and 199-205
CheckAlreadyPatching(c, kind) ==
    /\ orchestrator = "commands"
    /\ cpc[c] = "idle"
    /\ cpc' = [cpc EXCEPT ![c] = IF is_patching THEN "rejected" ELSE kind]
    /\ UNCHANGED tpc
    /\ UNCHANGED <<appVars, cycleVars, launcherVars, stateVars, ipcVars, workerVars,
                   diskVars, useCaseVars, histVars>>

\* The rest of a start command: the patch list is fetched; an error or an
\* empty list returns, otherwise run_patching is spawned.
FetchAndSpawn(c, kind) ==
    /\ orchestrator = "commands"
    /\ cpc[c] = kind
    /\ \/ /\ cpc' = [cpc EXCEPT ![c] = "returned"]
          /\ UNCHANGED tpc
       \/ /\ cpc' = [cpc EXCEPT ![c] = "returned"]
          /\ tpc' = [tpc EXCEPT ![c] = "spawned"]
    /\ UNCHANGED <<appVars, cycleVars, launcherVars, stateVars, ipcVars, workerVars,
                   diskVars, useCaseVars, histVars>>

\* start_boot_patch, patching.rs 119-185
StartBootPatchCheck(c) == CheckAlreadyPatching(c, "boot_checked")
StartBootPatchSpawn(c) == FetchAndSpawn(c, "boot_checked")
\* start_game_patch, patching.rs 188-249
StartGamePatchCheck(c) == CheckAlreadyPatching(c, "game_checked")
StartGamePatchSpawn(c) == FetchAndSpawn(c, "game_checked")

\* The spawned run_patching task initializes the state, patching.rs 295-302
TaskInit(c) ==
    /\ orchestrator = "commands"
    /\ tpc[c] = "spawned"
    /\ tpc' = [tpc EXCEPT ![c] = "running"]
    /\ is_patching' = TRUE
    /\ phase' = "Downloading"
    /\ cancel_requested' = FALSE
    /\ UNCHANGED <<lastEvent, cpc>>
    /\ UNCHANGED <<appVars, cycleVars, launcherVars, ipcVars, workerVars,
                   diskVars, useCaseVars, histVars>>

\* The task leaves run_patching on one of its exit paths: emit_error
\* (574-578), emit_cancelled (587-591) or "Mark as completed" (559-563).
\* Nothing between TaskInit and the exit assigns is_patching.
TaskExit(c) ==
    /\ orchestrator = "commands"
    /\ tpc[c] = "running"
    /\ tpc' = [tpc EXCEPT ![c] = "ended"]
    /\ is_patching' = FALSE
    /\ \E p \in {"Completed", "Failed", "Cancelled"} : phase' = p
    /\ UNCHANGED <<cancel_requested, lastEvent, cpc>>
    /\ UNCHANGED <<appVars, cycleVars, launcherVars, ipcVars, workerVars,
                   diskVars, useCaseVars, histVars>>

NextCommands ==
    \E c \in Calls :
        \/ StartBootPatchCheck(c)
        \/ StartBootPatchSpawn(c)
        \/ StartGamePatchCheck(c)
        \/ StartGamePatchSpawn(c)
        \/ TaskInit(c)
        \/ TaskExit(c)

SpecCommands == InitCommands /\ [][NextCommands]_vars

\* ---- the patch worker and an arbitrary peer on its socket -----------------
\* The worker binary takes the socket path as its argument (main.rs 40-46);
\* whatever listens there is its peer and can send any frame.
InitWorkerProtocol ==
    /\ orchestrator = "worker"
    /\ batch = <<>>
    /\ version_repo = "Some"
    /\ lpc = "idle"
    /\ upc = "idle"
    /\ cpc = [c \in Calls |-> "idle"]
    /\ tpc = [c \in Calls |-> "none"]
    /\ files = <<>>
    /\ applyResult = <<>>
    /\ InitCommon

\* The peer binds the socket and starts the worker on it.
PeerListen ==
    /\ orchestrator = "worker"
    /\ stream = "none"
    /\ stream' = "open"
    /\ wpc' = "start"
    /\ UNCHANGED <<is_running, child_process, l2w, w2l, recvCause>>
    /\ UNCHANGED <<widx, wpatches, CANCELLED, wexit>>
    /\ UNCHANGED <<appVars, cycleVars, launcherVars, stateVars, diskVars, useCaseVars,
                   commandVars, histVars>>

\* The peer writes one frame.
PeerSend(f) ==
    /\ orchestrator = "worker"
    /\ stream = "open"
    /\ Len(l2w) + Len(w2l) < MaxFrames
    /\ l2w' = Append(l2w, f)
    /\ UNCHANGED <<stream, is_running, child_process, w2l, recvCause>>
    /\ UNCHANGED <<appVars, cycleVars, launcherVars, stateVars, workerVars, diskVars,
                   useCaseVars, commandVars, histVars>>

\* The peer reads one response.
PeerRead ==
    /\ orchestrator = "worker"
    /\ stream = "open"
    /\ w2l # <<>>
    /\ w2l' = Tail(w2l)
    /\ UNCHANGED <<stream, is_running, child_process, l2w, recvCause>>
    /\ UNCHANGED <<appVars, cycleVars, launcherVars, stateVars, workerVars, diskVars,
                   useCaseVars, commandVars, histVars>>

\* The peer closes its end.
PeerClose ==
    /\ orchestrator = "worker"
    /\ stream = "open"
    /\ stream' = "closed"
    /\ UNCHANGED <<is_running, child_process, l2w, w2l, recvCause>>
    /\ UNCHANGED <<appVars, cycleVars, launcherVars, stateVars, workerVars, diskVars,
                   useCaseVars, commandVars, histVars>>

NextWorkerProtocol ==
    \/ PeerListen
    \/ \E f \in Frames : PeerSend(f)
    \/ PeerRead
    \/ PeerClose
    \/ WConnect
    \/ WSendReady
    \/ WRecv
    \/ WLoopTop
    \/ WFinish

SpecWorkerProtocol == InitWorkerProtocol /\ [][NextWorkerProtocol]_vars

\* ---- app specifications: common initial state ----------------------------
\* The launcher is up, no update cycle has been started.
PatchIdle ==
    /\ batch = <<>>
    /\ version_repo = "Some"
    /\ lpc = "idle"
    /\ upc = "idle"
    /\ cpc = [c \in Calls |-> "idle"]
    /\ tpc = [c \in Calls |-> "none"]
    /\ files = <<>>
    /\ applyResult = <<>>
    /\ InitCommon

\* ---- FileAccountRepository, as functions of the loaded store --------------
\* accounts.rs 67-80: update the existing entry in place or push a new one.
save_account(store, account) ==
    IF \E k \in 1..Len(store.accounts) : store.accounts[k].id = account.id
    THEN [store EXCEPT !.accounts =
            [k \in 1..Len(store.accounts) |->
                IF store.accounts[k].id = account.id THEN account ELSE store.accounts[k]]]
    ELSE [store EXCEPT !.accounts = Append(store.accounts, account)]

\* Mutant: the default pointer is left as it was.
delete_account_KeepsDefault(store, id) ==
    [accounts |-> SelectSeq(store.accounts, LAMBDA acc : acc.id # id),
     default_account |-> store.default_account]

\* accounts.rs 83-98: retain the other accounts, clear the default if it matched.
delete_account(store, id) ==
    [accounts |-> SelectSeq(store.accounts, LAMBDA acc : acc.id # id),
     default_account |-> IF store.default_account = id THEN "None"
                         ELSE store.default_account]

\* Mutant: the existence check always passes.
HasAccount_Always(store, id) == TRUE

\* store.accounts.iter().any(|a| &a.id == id): accounts.rs 118
HasAccount(store, id) == \E k \in 1..Len(store.accounts) : store.accounts[k].id = id

\* accounts.rs 114-124: Err when the account is not in the store (nothing
\* is written), otherwise the pointer is set.
set_default_account(store, id) ==
    IF HasAccount(store, id) THEN [store EXCEPT !.default_account = id] ELSE store

\* Mutant: the fallback to the first account is missing.
get_default_account_NoFallback(store) ==
    IF store.default_account # "None"
    THEN LET found == SelectSeq(store.accounts, LAMBDA acc : acc.id = store.default_account)
         IN  IF found = <<>> THEN None ELSE Some(Head(found))
    ELSE None

\* accounts.rs 101-111: the account the pointer names (absent when none has
\* that id); the first account when no pointer is set.
get_default_account(store) ==
    IF store.default_account # "None"
    THEN LET found == SelectSeq(store.accounts, LAMBDA acc : acc.id = store.default_account)
         IN  IF found = <<>> THEN None ELSE Some(Head(found))
    ELSE IF store.accounts = <<>> THEN None ELSE Some(Head(store.accounts))

\* ---- FileAccountRepository under concurrent commands -------------------------
\* AppState holds the repository in an Arc (state.rs 30, 70) and the Tauri
\* commands are async: each call loads the file, changes its copy and saves
\* it (accounts.rs 29-49), and calls of different commands interleave at the
\* awaits.
AccountOps ==
    [kind : {"save_account"}, id : AccountIds, last_login : {0, 1}]
        \cup [kind : {"delete_account", "set_default_account"}, id : AccountIds,
              last_login : {0}]

\* The store a call writes, from the store it loaded.
Apply(op, store) ==
    IF op.kind = "save_account"
    THEN save_account(store, [id |-> op.id, last_login |-> op.last_login])
    ELSE IF op.kind = "delete_account" THEN delete_account(store, op.id)
    ELSE set_default_account(store, op.id)

InitAccounts ==
    /\ orchestrator = "accounts"
    /\ PatchIdle

\* self.load(): accounts.rs 29-37, first line of every repository method
ALoad(t, op) ==
    /\ orchestrator = "accounts"
    /\ apc[t] = "idle"
    /\ apc' = [apc EXCEPT ![t] = "loaded"]
    /\ aop' = [aop EXCEPT ![t] = op]
    /\ aloaded' = [aloaded EXCEPT ![t] = accountsFile]
    /\ UNCHANGED accountsFile
    /\ UNCHANGED <<patchVars, libVars, otpVars, sessionVars>>

\* The change to the copy and self.save(): accounts.rs 39-49; a
\* set_default_account of an unknown account returns Err without saving.
ASave(t) ==
    /\ orchestrator = "accounts"
    /\ apc[t] = "loaded"
    /\ apc' = [apc EXCEPT ![t] = "returned"]
    /\ accountsFile' =
          IF aop[t].kind = "set_default_account" /\ ~HasAccount(aloaded[t], aop[t].id)
          THEN accountsFile
          ELSE Apply(aop[t], aloaded[t])
    /\ UNCHANGED <<aop, aloaded>>
    /\ UNCHANGED <<patchVars, libVars, otpVars, sessionVars>>

\* The call has returned; the task is free for the next command.
AReturn(t) ==
    /\ orchestrator = "accounts"
    /\ apc[t] = "returned"
    /\ apc' = [apc EXCEPT ![t] = "idle"]
    /\ aop' = [aop EXCEPT ![t] = NoOp]
    /\ aloaded' = [aloaded EXCEPT ![t] = EmptyStore]
    /\ UNCHANGED accountsFile
    /\ UNCHANGED <<patchVars, libVars, otpVars, sessionVars>>

NextAccounts ==
    \E t \in Tasks :
        \/ \E op \in AccountOps : ALoad(t, op)
        \/ ASave(t)
        \/ AReturn(t)

SpecAccounts == InitAccounts /\ [][NextAccounts]_vars

\* ---- cached sessions --------------------------------------------------------
\* CachedSession::CACHE_DURATION_SECS, entities.rs 546
CACHE_DURATION_SECS == 86400

\* Mutant: a session is still valid at exactly 24 h.
is_valid_Inclusive(session, t) == (t - session.created_at) <= CACHE_DURATION_SECS

\* CachedSession::is_valid, entities.rs 548-554, with the clock reading t
is_valid(session, t) == (t - session.created_at) < CACHE_DURATION_SECS

\* KeyringCredentialStore::get_session, credentials.rs 118-137: the stored
\* entry, whatever its age, or absent.
get_session(a) == keyring[a]

\* A keyring call succeeds or fails with Error::CredentialStorage.
KeyringOutcomes == {"ok", "err"}

\* store_session / delete_session, credentials.rs 95-115 and 140-156
store_session(a, session, outcome) ==
    keyring' = IF outcome = "ok" THEN [keyring EXCEPT ![a] = Some(session)] ELSE keyring

delete_session(a, outcome) ==
    keyring' = IF outcome = "ok" THEN [keyring EXCEPT ![a] = None] ELSE keyring

InitSessions ==
    /\ orchestrator = "sessions"
    /\ PatchIdle

\* Time passes: by a second, or by a second less than the cache duration.
Tick ==
    /\ orchestrator = "sessions"
    /\ ticks < MaxTicks
    /\ \E d \in {1, CACHE_DURATION_SECS - 1} : now' = now + d
    /\ ticks' = ticks + 1
    /\ UNCHANGED <<keyring, rpc, rsess, ended>>
    /\ UNCHANGED <<patchVars, libVars, otpVars, accountVars>>

\* The end of a successful authentication: the session is cached with
\* created_at = now (login.rs 130-132 and 288-309, auth.rs 106-116).
Authenticate(a) ==
    /\ orchestrator = "sessions"
    /\ \E outcome \in KeyringOutcomes :
          /\ store_session(a, [created_at |-> now], outcome)
          /\ ended' = IF outcome = "ok" THEN [ended EXCEPT ![a] = FALSE] ELSE ended
    /\ UNCHANGED <<now, ticks, rpc, rsess>>
    /\ UNCHANGED <<patchVars, libVars, otpVars, accountVars>>

\* logout, auth.rs 186-202: the result of delete_session is discarded.
Logout(a) ==
    /\ orchestrator = "sessions"
    /\ \E outcome \in KeyringOutcomes : delete_session(a, outcome)
    /\ ended' = [ended EXCEPT ![a] = TRUE]
    /\ UNCHANGED <<now, ticks, rpc, rsess>>
    /\ UNCHANGED <<patchVars, libVars, otpVars, accountVars>>

\* remove_account, commands/accounts.rs 108-121: the results of the keyring
\* deletes are discarded, then the account is deleted from the store.
RemoveAccount(a) ==
    /\ orchestrator = "sessions"
    /\ \E outcome \in KeyringOutcomes : delete_session(a, outcome)
    /\ ended' = [ended EXCEPT ![a] = TRUE]
    /\ accountsFile' = delete_account(accountsFile, a)
    /\ UNCHANGED <<now, ticks, rpc, rsess>>
    /\ UNCHANGED <<apc, aop, aloaded>>
    /\ UNCHANGED <<patchVars, libVars, otpVars>>

\* A path reads the session of account a and checks it: login.rs 216-217,
\* patching.rs 209-214, version.rs 289-315, launcher.rs 188-198.
ReadSession(p, a) ==
    /\ orchestrator = "sessions"
    /\ rpc[p] = "idle"
    /\ IF get_session(a) = None
       THEN UNCHANGED <<rpc, rsess>>
       ELSE /\ rsess' = [rsess EXCEPT ![p] =
                            [account |-> a,
                             created_at |-> get_session(a)[1].created_at,
                             checked_at |-> now]]
            /\ rpc' = [rpc EXCEPT ![p] =
                            IF is_valid(get_session(a)[1], now) THEN "using" ELSE "expired"]
    /\ UNCHANGED <<now, ticks, keyring, ended>>
    /\ UNCHANGED <<patchVars, libVars, otpVars, accountVars>>

\* The path found the session expired: try_cached_session deletes it and
\* goes on to a fresh login (login.rs 220-223); the commands return their
\* "Session expired" error.
ReturnExpired(p) ==
    /\ orchestrator = "sessions"
    /\ rpc[p] = "expired"
    /\ rpc' = [rpc EXCEPT ![p] = "idle"]
    /\ rsess' = [rsess EXCEPT ![p] = NoRead]
    /\ IF p = "login"
       THEN \E outcome \in KeyringOutcomes : delete_session(rsess[p].account, outcome)
       ELSE UNCHANGED keyring
    /\ UNCHANGED <<now, ticks, ended>>
    /\ UNCHANGED <<patchVars, libVars, otpVars, accountVars>>

\* The path uses session.unique_id after the awaits that follow the check:
\* the LoginResult of complete_login_with_session (login.rs 226-258),
\* register_session (patching.rs 217-220, version.rs 318-321),
\* EncryptedSessionId::new (launcher.rs 200-212).
UseUniqueId(p) ==
    /\ orchestrator = "sessions"
    /\ rpc[p] = "using"
    /\ rpc' = [rpc EXCEPT ![p] = "idle"]
    /\ rsess' = [rsess EXCEPT ![p] = NoRead]
    /\ UNCHANGED <<now, ticks, keyring, ended>>
    /\ UNCHANGED <<patchVars, libVars, otpVars, accountVars>>

\* The keyring entry of an account is keyed by its id (session_key,
\* credentials.rs 24-26): no operation on one account reads or writes the
\* entry of another, so the sessions of one account are followed.
SessionAccounts == {"a"}

NextSessions ==
    \/ Tick
    \/ \E a \in SessionAccounts : Authenticate(a)
    \/ \E a \in SessionAccounts : Logout(a)
    \/ \E a \in SessionAccounts : RemoveAccount(a)
    \/ \E p \in Paths, a \in SessionAccounts : ReadSession(p, a)
    \/ \E p \in Paths : ReturnExpired(p)
    \/ \E p \in Paths : UseUniqueId(p)

SpecSessions == InitSessions /\ [][NextSessions]_vars

\* ---- HttpOtpListener: otp_listener.rs --------------------------------------
\* running: the AtomicBool; shutdown_tx: the stored oneshot Sender, named by
\* the start() call that made it; sig[s]: the shutdown channel of call s
\* ("open", "sent" by stop(), "dropped" when its Sender was overwritten:
\* shutdown_rx.await resolves in both cases); rx[s]: the OTP Receiver that
\* call s returned; srv[s]: the server task that call s spawned.
InitOtp ==
    /\ orchestrator = "otp"
    /\ PatchIdle

\* start(), otp_listener.rs 37-42: the running check, then the channels.
StartCheck(s) ==
    /\ orchestrator = "otp"
    /\ spc[s] = "idle"
    /\ spc' = [spc EXCEPT ![s] = IF running THEN "rejected" ELSE "checked"]
    /\ UNCHANGED <<running, shutdown_tx, srv, sig, rx, stopped>>
    /\ UNCHANGED <<patchVars, libVars, sessionVars, accountVars>>

\* start(), otp_listener.rs 44-48: the Sender is stored; the one it
\* replaces is dropped.
StartStoreTx(s) ==
    /\ orchestrator = "otp"
    /\ spc[s] = "checked"
    /\ spc' = [spc EXCEPT ![s] = "stored"]
    /\ shutdown_tx' = Some(s)
    /\ sig' = IF shutdown_tx = None THEN sig
              ELSE [sig EXCEPT ![shutdown_tx[1]] = "dropped"]
    /\ UNCHANGED <<running, srv, rx, stopped>>
    /\ UNCHANGED <<patchVars, libVars, sessionVars, accountVars>>

\* start(), otp_listener.rs 50-103: running is set, the server task is
\* spawned and the Receiver is returned.
StartSpawn(s) ==
    /\ orchestrator = "otp"
    /\ spc[s] = "stored"
    /\ spc' = [spc EXCEPT ![s] = "returned"]
    /\ running' = TRUE
    /\ srv' = [srv EXCEPT ![s] = "spawned"]
    /\ rx' = [rx EXCEPT ![s] = "waiting"]
    /\ UNCHANGED <<shutdown_tx, sig, stopped>>
    /\ UNCHANGED <<patchVars, libVars, sessionVars, accountVars>>

\* The task ends and drops the router with the OTP Sender in it: a
\* Receiver that got no OTP resolves with RecvError.
DropOtpTx(s) == [rx EXCEPT ![s] = IF rx[s] = "waiting" THEN "cancelled" ELSE rx[s]]

\* The server task binds port 4646, otp_listener.rs 82-90; the bind fails
\* while another task holds the port.
SrvBind(s) ==
    /\ orchestrator = "otp"
    /\ srv[s] = "spawned"
    /\ IF \E o \in Starts : srv[o] = "serving"
       THEN /\ srv' = [srv EXCEPT ![s] = "ended"]
            /\ running' = FALSE
            /\ rx' = DropOtpTx(s)
       ELSE /\ srv' = [srv EXCEPT ![s] = "serving"]
            /\ UNCHANGED <<running, rx>>
    /\ UNCHANGED <<shutdown_tx, spc, sig, stopped>>
    /\ UNCHANGED <<patchVars, libVars, sessionVars, accountVars>>

\* GET /ffxivlauncher/{otp}, otp_listener.rs 57-72: the OTP goes to the
\* Receiver if the Sender is still there, running is cleared; the server
\* keeps serving.
SrvOtp(s) ==
    /\ orchestrator = "otp"
    /\ srv[s] = "serving"
    /\ rx' = [rx EXCEPT ![s] = IF rx[s] = "waiting" THEN "got" ELSE rx[s]]
    /\ running' = FALSE
    /\ UNCHANGED <<shutdown_tx, spc, srv, sig, stopped>>
    /\ UNCHANGED <<patchVars, libVars, sessionVars, accountVars>>

\* Graceful shutdown, otp_listener.rs 92-100: shutdown_rx resolved, serve
\* returns, running is cleared and the task ends.
SrvShutdown(s) ==
    /\ orchestrator = "otp"
    /\ srv[s] = "serving"
    /\ sig[s] # "open"
    /\ srv' = [srv EXCEPT ![s] = "ended"]
    /\ running' = FALSE
    /\ rx' = DropOtpTx(s)
    /\ UNCHANGED <<shutdown_tx, spc, sig, stopped>>
    /\ UNCHANGED <<patchVars, libVars, sessionVars, accountVars>>

\* Mutant: stop() only clears the flag.
Stop_FlagOnly ==
    /\ orchestrator = "otp"
    /\ running' = FALSE
    /\ stopped' = stopped \cup {s \in Starts : rx[s] = "waiting"}
    /\ UNCHANGED <<shutdown_tx, sig, spc, srv, rx>>
    /\ UNCHANGED <<patchVars, libVars, sessionVars, accountVars>>

\* stop(), otp_listener.rs 106-112. stopped records the receivers that
\* were waiting when stop() was called.
Stop ==
    /\ orchestrator = "otp"
    /\ shutdown_tx' = None
    /\ sig' = IF shutdown_tx = None THEN sig
              ELSE [sig EXCEPT ![shutdown_tx[1]] = "sent"]
    /\ running' = FALSE
    /\ stopped' = stopped \cup {s \in Starts : rx[s] = "waiting"}
    /\ UNCHANGED <<spc, srv, rx>>
    /\ UNCHANGED <<patchVars, libVars, sessionVars, accountVars>>

NextOtp ==
    \/ \E s \in Starts : StartCheck(s)
    \/ \E s \in Starts : StartStoreTx(s)
    \/ \E s \in Starts : StartSpawn(s)
    \/ \E s \in Starts : SrvBind(s)
    \/ \E s \in Starts : SrvOtp(s)
    \/ \E s \in Starts : SrvShutdown(s)
    \/ Stop

SpecOtp == InitOtp /\ [][NextOtp]_vars

\* The tokio runtime runs every spawned task and every call in progress:
\* a start() past its check goes on, a server task binds, and a server
\* whose shutdown channel resolved shuts down.
SpecOtpLive ==
    /\ SpecOtp
    /\ \A s \in Starts :
          /\ WF_vars(StartStoreTx(s))
          /\ WF_vars(StartSpawn(s))
          /\ WF_vars(SrvBind(s))
          /\ WF_vars(SrvShutdown(s))

\* ---- GameVersion::parse: entities.rs 191-225 ------------------------------
\* split('.'): the parts between the dots; "" has one empty part.
RECURSIVE Split(_)
Split(s) ==
    IF s = <<>> THEN << <<>> >>
    ELSE LET rest == Split(Tail(s))
         IN  IF Head(s) = "." THEN << <<>> >> \o rest
             ELSE << <<Head(s)>> \o Head(rest) >> \o Tail(rest)

DigitOf(c) == CHOOSE d \in 0..9 : Digits[d + 1] = c

RECURSIVE ValueOf(_)
ValueOf(part) ==
    IF part = <<>> THEN 0
    ELSE 10 * ValueOf(SubSeq(part, 1, Len(part) - 1)) + DigitOf(part[Len(part)])

U8_MAX == 255
U16_MAX == 65535
\* str::parse::<u8 / u16>: at least one digit, and the value fits.
ParsesAs(part, max) == part # <<>> /\ ValueOf(part) <= max

parse(version_string) ==
    LET parts == Split(version_string)
    IN  IF Len(parts) # 5 THEN Err
        ELSE IF /\ ParsesAs(parts[1], U16_MAX)
                /\ ParsesAs(parts[2], U8_MAX)
                /\ ParsesAs(parts[3], U8_MAX)
                /\ ParsesAs(parts[4], U16_MAX)
                /\ ParsesAs(parts[5], U16_MAX)
             THEN Ok(version_string)
             ELSE Err

\* get_version on the bytes of the version file, patch/version.rs 59-68
read_version(f) == IF ~f.exists THEN Err ELSE parse(f.data)

\* ---- set_version step by step, and a crash: patch/version.rs 71-89 --------
\* svpc follows one call: "exists" (line 80), "copy" (82), "create" and
\* "write" (fs::write at 86: the file is created or truncated, then
\* write_all loops over write), "returned"; "crashed" when the process died
\* inside the call.
MaxSetVersions == 2
IoOutcomes == {"ok", "err"}

InitVersionFile ==
    /\ orchestrator = "version_file"
    /\ PatchIdle

SvCall ==
    /\ orchestrator = "version_file"
    /\ svpc = "idle"
    /\ svCalls < MaxSetVersions
    /\ svCalls' = svCalls + 1
    /\ svArg' = Literal(svCalls + 1)
    /\ svOld' = read_version(verPath)
    /\ got' = NotRead
    /\ svpc' = "exists"
    /\ UNCHANGED <<verPath, bckPath>>
    /\ UNCHANGED exceptVerFile

\* if ver_path.exists()
SvExists ==
    /\ orchestrator = "version_file"
    /\ svpc = "exists"
    /\ svpc' = IF verPath.exists THEN "copy" ELSE "create"
    /\ UNCHANGED <<verPath, bckPath, svArg, svOld, svCalls, got>>
    /\ UNCHANGED exceptVerFile

\* fs::copy(&ver_path, &backup_path).await?
SvCopy ==
    /\ orchestrator = "version_file"
    /\ svpc = "copy"
    /\ \E outcome \in IoOutcomes :
          IF outcome = "ok"
          THEN bckPath' = File(verPath.data) /\ svpc' = "create"
          ELSE UNCHANGED bckPath /\ svpc' = "returned"
    /\ UNCHANGED <<verPath, svArg, svOld, svCalls, got>>
    /\ UNCHANGED exceptVerFile

\* fs::write opens the file with create and truncate.
SvCreate ==
    /\ orchestrator = "version_file"
    /\ svpc = "create"
    /\ \E outcome \in IoOutcomes :
          IF outcome = "ok"
          THEN verPath' = File(<<>>) /\ svpc' = "write"
          ELSE UNCHANGED verPath /\ svpc' = "returned"
    /\ UNCHANGED <<bckPath, svArg, svOld, svCalls, got>>
    /\ UNCHANGED exceptVerFile

\* write_all: each write stores the next k bytes; a failed write returns
\* the error with what was stored so far.
SvWrite ==
    /\ orchestrator = "version_file"
    /\ svpc = "write"
    /\ LET done == Len(verPath.data)
       IN  \/ \E k \in 1..(Len(svArg) - done) :
                /\ verPath' = File(SubSeq(svArg, 1, done + k))
                /\ svpc' = IF done + k = Len(svArg) THEN "returned" ELSE "write"
           \/ /\ svpc' = "returned"
              /\ UNCHANGED verPath
    /\ UNCHANGED <<bckPath, svArg, svOld, svCalls, got>>
    /\ UNCHANGED exceptVerFile

SvReturn ==
    /\ orchestrator = "version_file"
    /\ svpc = "returned"
    /\ svpc' = "idle"
    /\ UNCHANGED <<verPath, bckPath, svArg, svOld, svCalls, got>>
    /\ UNCHANGED exceptVerFile

\* The process dies inside set_version.
Crash ==
    /\ orchestrator = "version_file"
    /\ svpc \in {"exists", "copy", "create", "write"}
    /\ svpc' = "crashed"
    /\ UNCHANGED <<verPath, bckPath, svArg, svOld, svCalls, got>>
    /\ UNCHANGED exceptVerFile

\* The launcher is started again and reads the version.
GetVersion ==
    /\ orchestrator = "version_file"
    /\ svpc = "crashed"
    /\ got' = [read |-> TRUE, result |-> read_version(verPath)]
    /\ svpc' = "idle"
    /\ UNCHANGED <<verPath, bckPath, svArg, svOld, svCalls>>
    /\ UNCHANGED exceptVerFile

NextVersionFile ==
    \/ SvCall
    \/ SvExists
    \/ SvCopy
    \/ SvCreate
    \/ SvWrite
    \/ SvReturn
    \/ Crash
    \/ GetVersion

SpecVersionFile == InitVersionFile /\ [][NextVersionFile]_vars

\* ---- GoatcorpIntegrityChecker: integrity/checker.rs ------------------------
\* A manifest path is a string over the path separator of the manifest, the
\* dot and one other character.
MaxPathLen == 2
MaxEntries == 2
PathChars == {"\\", ".", "a"}
ManifestPaths == SeqsOf(PathChars, MaxPathLen) \ {<<>>}
\* IntegrityManifest.hashes is a HashMap: its keys are distinct.
RECURSIVE SetsUpTo(_, _)
SetsUpTo(S, n) ==
    IF n = 0 THEN {{}}
    ELSE LET smaller == SetsUpTo(S, n - 1)
         IN  smaller \cup {m \cup {x} : m \in smaller, x \in S}

Manifests == SetsUpTo(ManifestPaths, MaxEntries) \ {{}}

\* str::trim_start_matches('\\')
RECURSIVE trim_start_matches(_)
trim_start_matches(s) ==
    IF s # <<>> /\ Head(s) = "\\" THEN trim_start_matches(Tail(s)) ELSE s

\* str::replace('\\', "/")
replace(s) == [k \in 1..Len(s) |-> IF s[k] = "\\" THEN "/" ELSE s[k]]

\* str::contains("..")
contains_dotdot(s) == \E k \in 1..Len(s) - 1 : s[k] = "." /\ s[k + 1] = "."

\* normalize_path, checker.rs 243-258: the path under game_path, or Err.
normalize_path_NoCheck(manifest_path) ==
    LET relative == replace(trim_start_matches(manifest_path))
    IN  [ok |-> TRUE, relative |-> relative]

normalize_path(manifest_path) ==
    LET relative == replace(trim_start_matches(manifest_path))
    IN  IF contains_dotdot(relative)
        THEN [ok |-> FALSE, relative |-> <<>>]
        ELSE [ok |-> TRUE, relative |-> relative]

\* The components of game_path.join(relative), and whether the file system
\* resolves them to a place above game_path.
RECURSIVE Components(_)
Components(rel) ==
    IF rel = <<>> THEN << <<>> >>
    ELSE LET rest == Components(Tail(rel))
         IN  IF Head(rel) = "/" THEN << <<>> >> \o rest
             ELSE << <<Head(rel)>> \o Head(rest) >> \o Tail(rest)

RECURSIVE LeavesRoot(_, _)
LeavesRoot(comps, depth) ==
    IF comps = <<>> THEN FALSE
    ELSE IF Head(comps) = <<".", ".">>
         THEN depth = 0 \/ LeavesRoot(Tail(comps), depth - 1)
         ELSE IF Head(comps) \in {<<>>, <<".">>}
              THEN LeavesRoot(Tail(comps), depth)
              ELSE LeavesRoot(Tail(comps), depth + 1)

OutsideGameRoot(rel) == LeavesRoot(Components(rel), 0)

IntegrityStatus == {"Valid", "Mismatch", "Missing", "Unreadable"}

InitIntegrity ==
    /\ orchestrator = "integrity"
    /\ PatchIdle

\* verify_integrity, commands/integrity.rs 139-174: refuse while a check is
\* running, else fetch the manifest, mark the state as checking and clear
\* IntegrityState.cancel_requested.  fetch_manifest serves a later call for
\* the same game version from its cache, checker.rs 113-126.
VerifyIntegrity ==
    /\ orchestrator = "integrity"
    /\ icpc = "idle"
    /\ ~is_checking
    /\ \E m \in (IF manifest = {} THEN Manifests ELSE {manifest}) : manifest' = m
    /\ is_checking' = TRUE
    /\ integrity_cancel_requested' = FALSE
    /\ icpc' = "check_integrity"
    /\ results' = {}
    /\ reads' = {}
    /\ hashed' = {}
    /\ icResult' = "none"
    /\ cancelPending' = None
    /\ UNCHANGED <<cancelled, pending>>
    /\ UNCHANGED exceptIntegrity

\* check_integrity, checker.rs 151-159, creates its own flag; then
\* check_files_parallel, 267-277, reads the metadata of every path that
\* normalize_path accepts.
CheckIntegrity ==
    /\ orchestrator = "integrity"
    /\ icpc = "check_integrity"
    /\ cancelled' = FALSE
    /\ reads' = {normalize_path(p).relative : p \in {q \in manifest : normalize_path(q).ok}}
    /\ pending' = manifest
    /\ icpc' = "par_iter"
    /\ UNCHANGED <<is_checking, integrity_cancel_requested, manifest, results, hashed,
                   icResult, cancelPending>>
    /\ UNCHANGED exceptIntegrity

\* The closure of par_iter().map for one entry, checker.rs 281-347; the
\* pool takes the entries in any order.
CheckFile(e) ==
    /\ orchestrator = "integrity"
    /\ icpc = "par_iter"
    /\ e \in pending
    /\ pending' = pending \ {e}
    /\ IF cancelled \/ ~normalize_path(e).ok
       THEN UNCHANGED <<results, reads, hashed>>
       ELSE \E status \in IntegrityStatus :
               /\ results' = results \cup {[relative_path |-> e, status |-> status]}
               /\ reads' = reads \cup {normalize_path(e).relative}
               /\ hashed' = IF status = "Missing" THEN hashed ELSE hashed \cup {e}
    /\ UNCHANGED <<is_checking, integrity_cancel_requested, cancelled, icpc, manifest,
                   icResult, cancelPending>>
    /\ UNCHANGED exceptIntegrity

\* checker.rs 349-356
CollectResults ==
    /\ orchestrator = "integrity"
    /\ icpc = "par_iter"
    /\ pending = {}
    /\ icResult' = IF cancelled THEN "Cancelled" ELSE "Ok"
    /\ icpc' = "collected"
    /\ UNCHANGED <<is_checking, integrity_cancel_requested, cancelled, manifest, pending,
                   results, reads, hashed, cancelPending>>
    /\ UNCHANGED exceptIntegrity

\* verify_integrity, commands/integrity.rs 213-274: is_checking is reset on
\* both results.
VerifyReturn ==
    /\ orchestrator = "integrity"
    /\ icpc = "collected"
    /\ is_checking' = FALSE
    /\ icpc' = "idle"
    /\ UNCHANGED <<integrity_cancel_requested, cancelled, manifest, pending, results,
                   reads, hashed, icResult, cancelPending>>
    /\ UNCHANGED exceptIntegrity

\* cancel_integrity_check, commands/integrity.rs 317-327; cancelPending
\* remembers the entries that had not been begun at the first request.
CancelIntegrityCheck ==
    /\ orchestrator = "integrity"
    /\ is_checking
    /\ integrity_cancel_requested' = TRUE
    /\ cancelPending' = IF cancelPending # None THEN cancelPending
                        ELSE IF icpc = "check_integrity" THEN Some(manifest)
                        ELSE Some(pending)
    /\ UNCHANGED <<is_checking, cancelled, icpc, manifest, pending, results, reads,
                   hashed, icResult>>
    /\ UNCHANGED exceptIntegrity

NextIntegrity ==
    \/ VerifyIntegrity
    \/ CheckIntegrity
    \/ \E e \in ManifestPaths : CheckFile(e)
    \/ CollectResults
    \/ VerifyReturn
    \/ CancelIntegrityCheck

SpecIntegrity == InitIntegrity /\ [][NextIntegrity]_vars

\* ---- ZiPatchParser::apply_patch: zipatch/parser.rs 795-842 ------------------
\* The chunks that parse_patch returned.  An ADIR or DELD chunk carries the
\* path read by read_string, a string over the slash, the dot and one other
\* character; an SQPK chunk is only logged.
MaxChunks == 2
ChunkPathChars == {"/", ".", "a"}
ChunkPaths == SeqsOf(ChunkPathChars, MaxPathLen) \ {<<>>}
ChunkTypes == {"ADIR", "DELD", "SQPK"}
Chunk == [type : ChunkTypes, path : ChunkPaths]
Patches == SeqsOf(Chunk, MaxChunks) \ {<<>>}

\* str::trim_start_matches('/')
RECURSIVE trim_start_slashes(_)
trim_start_slashes(s) ==
    IF s # <<>> /\ Head(s) = "/" THEN trim_start_slashes(Tail(s)) ELSE s

InitApplyPatch ==
    /\ orchestrator = "apply_patch"
    /\ PatchIdle

\* apply_patch, parser.rs 796-802
ApplyPatch ==
    /\ orchestrator = "apply_patch"
    /\ zpc = "idle"
    /\ \E p \in Patches : chunks' = p
    /\ zpc' = "chunks"
    /\ UNCHANGED <<created, deleted, zResult>>
    /\ UNCHANGED exceptApply

\* One turn of `for chunk in chunks`, parser.rs 804-838.
ApplyChunk ==
    /\ orchestrator = "apply_patch"
    /\ zpc = "chunks"
    /\ chunks # <<>>
    /\ LET chunk == Head(chunks)
           full_path == trim_start_slashes(chunk.path)
       IN  \E outcome \in IoOutcomes, exists \in BOOLEAN :
              CASE chunk.type = "ADIR" ->
                      \* std::fs::create_dir_all(&full_path)?
                      IF outcome = "ok"
                      THEN /\ created' = created \cup {full_path}
                           /\ chunks' = Tail(chunks)
                           /\ UNCHANGED <<deleted, zpc, zResult>>
                      ELSE /\ zpc' = "returned"
                           /\ zResult' = "Err"
                           /\ UNCHANGED <<created, deleted, chunks>>
                [] chunk.type = "DELD" ->
                      \* if full_path.exists() { std::fs::remove_dir_all(&full_path)?; }
                      IF ~exists
                      THEN /\ chunks' = Tail(chunks)
                           /\ UNCHANGED <<created, deleted, zpc, zResult>>
                      ELSE IF outcome = "ok"
                      THEN /\ deleted' = deleted \cup {full_path}
                           /\ chunks' = Tail(chunks)
                           /\ UNCHANGED <<created, zpc, zResult>>
                      ELSE /\ zpc' = "returned"
                           /\ zResult' = "Err"
                           /\ UNCHANGED <<created, deleted, chunks>>
                [] OTHER ->
                      /\ chunks' = Tail(chunks)
                      /\ UNCHANGED <<created, deleted, zpc, zResult>>
    /\ UNCHANGED exceptApply

\* parser.rs 841
ApplyReturn ==
    /\ orchestrator = "apply_patch"
    /\ zpc = "chunks"
    /\ chunks = <<>>
    /\ zpc' = "returned"
    /\ zResult' = "Ok"
    /\ UNCHANGED <<chunks, created, deleted>>
    /\ UNCHANGED exceptApply

NextApplyPatch ==
    \/ ApplyPatch
    \/ ApplyChunk
    \/ ApplyReturn

SpecApplyPatch == InitApplyPatch /\ [][NextApplyPatch]_vars

\* ---- crc32fast::Hasher: CRC-32 (IEEE), reflected, as used at parser.rs 73-78
\* A 32-bit word is kept as its two 16-bit halves.
Ones == [hi |-> 65535, lo |-> 65535]
\* 0xEDB88320
Poly == [hi |-> 60856, lo |-> 33568]

\* The exclusive or of two numbers of n bits.
RECURSIVE XorBits(_, _, _)
XorBits(a, b, n) ==
    IF n = 0 THEN 0
    ELSE (((a % 2) + (b % 2)) % 2) + 2 * XorBits(a \div 2, b \div 2, n - 1)

Xor(a, b) == [hi |-> XorBits(a.hi, b.hi, 16), lo |-> XorBits(a.lo, b.lo, 16)]
Shr1(w) == [hi |-> w.hi \div 2, lo |-> (w.lo \div 2) + (w.hi % 2) * 32768]
ByteWord(byte) == [hi |-> 0, lo |-> byte]
\* The word with bit 0 flipped.
FlipBit0(w) == Xor(w, [hi |-> 0, lo |-> 1])

\* One bit of the register is shifted out.
Round(w) == IF w.lo % 2 = 1 THEN Xor(Shr1(w), Poly) ELSE Shr1(w)

\* n rounds; each intermediate register is bound as a value before the next
\* round starts.
RECURSIVE Rounds(_, _)
Rounds(w, n) ==
    IF n = 0 THEN w
    ELSE CHOOSE r \in {Rounds(v, n - 1) : v \in {Round(w)}} : TRUE

\* The register after update(bytes), from Hasher::new().
RECURSIVE Update(_)
Update(bytes) ==
    IF bytes = <<>> THEN Ones
    ELSE CHOOSE r \in {Rounds(Xor(v, ByteWord(bytes[Len(bytes)])), 8) :
                           v \in {Update(SubSeq(bytes, 1, Len(bytes) - 1))}} : TRUE

\* Hasher::new(), update(bytes), finalize()
crc32(bytes) == Xor(Update(bytes), Ones)

\* ---- ZiPatchParser::read_chunk: zipatch/parser.rs 59-154 --------------------
MaxPayload == 5
MAGIC_LEN == 12
\* The type tags of the chunks read_chunk tells apart by their payload
\* layout here, and a tag it does not know: "ADIR", "DELD", "EOF_", "XXXX".
ADIR == <<65, 68, 73, 82>>
DELD == <<68, 69, 76, 68>>
EOF_ == <<69, 79, 70, 95>>
XXXX == <<88, 88, 88, 88>>
ChunkTags == {ADIR, DELD, EOF_, XXXX}
\* Payload bytes: NUL and the letter a.
PayloadBytes == {0, 97}
Payloads == SeqsOf(PayloadBytes, MaxPayload)
\* The chunk after the magic header, or a later one.
ChunkOffsets == {MAGIC_LEN, MAGIC_LEN + 32}

\* What the file can hold in the CRC field of a chunk: the CRC-32 of type
\* and payload, that of the payload alone, that of both in the other order,
\* or the right one with a bit flipped.
StoredCrcs(type, payload) ==
    {crc32(type \o payload), crc32(payload), crc32(payload \o type),
     FlipBit0(crc32(type \o payload))}

Readers ==
    UNION {{[offset |-> o, size |-> Len(p), type |-> t, payload |-> p, crc |-> c] :
                c \in StoredCrcs(t, p), o \in ChunkOffsets} :
           t \in ChunkTags, p \in Payloads}

\* read_string, parser.rs 38-44: the bytes without their trailing NULs.
RECURSIVE read_string(_)
read_string(buf) ==
    IF buf # <<>> /\ buf[Len(buf)] = 0
    THEN read_string(SubSeq(buf, 1, Len(buf) - 1))
    ELSE buf

\* vec![0u8; len] with buf[..s.len()] overwritten by s, parser.rs 246-250
ZeroPadded(s, len) == [k \in 1..len |-> IF k <= Len(s) THEN s[k] ELSE 0]

\* a.saturating_sub(b)
saturating_sub(a, b) == IF a > b THEN a - b ELSE 0

\* The bytes the type-specific parser gives to the hasher, parser.rs 81-119
\* with 235-276: ADIR and DELD read size - 4 bytes as a string and hash the
\* string padded back to that length; EOF_ and unknown chunks hash the
\* size - 4 bytes they skip.
ParsedBytes(chunk_type, rd) ==
    LET len == saturating_sub(rd.size, 4)
        raw == SubSeq(rd.payload, 1, len)
    IN  IF chunk_type \in {ADIR, DELD} THEN ZeroPadded(read_string(raw), len) ELSE raw

\* parser.rs 121-133: the bytes up to the CRC field are read and hashed.
SkippedBytes(rd) == SubSeq(rd.payload, saturating_sub(rd.size, 4) + 1, rd.size)

\* Everything the hasher is given for one chunk, in order.
hasher_input_PayloadOnly(chunk_type, rd) ==
    ParsedBytes(chunk_type, rd) \o SkippedBytes(rd)

hasher_input(chunk_type, rd) ==
    chunk_type \o ParsedBytes(chunk_type, rd) \o SkippedBytes(rd)

ChunkKind(chunk_type) ==
    CASE chunk_type = ADIR -> "AddDirectory"
      [] chunk_type = DELD -> "DeleteDirectory"
      [] chunk_type = EOF_ -> "EndOfFile"
      [] OTHER -> "Unknown"

read_chunk(verify, rd) ==
    LET offset == rd.offset
        chunk_type == read_string(rd.type)
        computed_crc == crc32(hasher_input(chunk_type, rd))
        stored_crc == rd.crc
    IN  IF verify /\ computed_crc # stored_crc
        THEN [kind |-> "ZiPatchChecksumMismatch", offset |-> offset]
        ELSE [kind |-> ChunkKind(chunk_type), offset |-> offset]

InitReadChunk ==
    /\ orchestrator = "read_chunk"
    /\ PatchIdle

\* ZiPatchParser::new() or without_checksum_verification(), parser.rs 24-35,
\* and a reader placed at a chunk.
OpenPatch ==
    /\ orchestrator = "read_chunk"
    /\ rcpc = "idle"
    /\ verify_checksums' \in BOOLEAN
    /\ reader' \in Readers
    /\ rcpc' = "open"
    /\ UNCHANGED rcResult
    /\ UNCHANGED exceptReadChunk

ReadChunk ==
    /\ orchestrator = "read_chunk"
    /\ rcpc = "open"
    /\ rcResult' = read_chunk(verify_checksums, reader)
    /\ rcpc' = "read"
    /\ UNCHANGED <<verify_checksums, reader>>
    /\ UNCHANGED exceptReadChunk

NextReadChunk ==
    \/ OpenPatch
    \/ ReadChunk

SpecReadChunk == InitReadChunk /\ [][NextReadChunk]_vars

\* ---- HttpPatchDownloader::verify_patch: patch/downloader.rs 34-66, 141-167 --
MaxFileLen == 3
MaxBlockSize == 2
MaxHashes == 2
FileBytes == {0, 1}
FileDatas == SeqsOf(FileBytes, MaxFileLen)
BlockSizes == 1..MaxBlockSize
\* The blocks a file can have.
Blocks == SeqsOf(FileBytes, MaxBlockSize) \ {<<>>}
\* hex::encode(Sha1 of a block): SHA-1 is taken as free of collisions, so a
\* digest is named by the block it is the digest of; hex::encode writes
\* lower-case digits, the patch list can hold either case.
HexHashes == [sha1_of : Blocks, hex : {"lower", "upper"}]
hex_encode_sha1(block) == [sha1_of |-> block, hex |-> "lower"]

PatchEntries ==
    [length : 0..MaxFileLen,
     hash_block_size : {None} \cup {Some(b) : b \in BlockSizes},
     hashes : {None} \cup {Some(h) : h \in SeqsOf(HexHashes, MaxHashes)}]

Min(a, b) == IF a < b THEN a ELSE b

\* The while loop of verify_file_blocks, downloader.rs 43-63, from one
\* (current_offset, block_index) on; offsets count from 0 as in the code.
RECURSIVE BlocksFrom(_, _, _, _)
BlocksFrom(file_data, hashes, block_size, at) ==
    IF ~(at.current_offset < Len(file_data) /\ at.block_index < Len(hashes))
    THEN TRUE
    ELSE LET end == Min(at.current_offset + block_size, Len(file_data))
             block == SubSeq(file_data, at.current_offset + 1, end)
             actual_hash == hex_encode_sha1(block)
         IN  IF actual_hash # hashes[at.block_index + 1]
             THEN FALSE
             ELSE BlocksFrom(file_data, hashes, block_size,
                             [current_offset |-> end, block_index |-> at.block_index + 1])

\* Only the first block is compared.
verify_file_blocks_FirstBlock(file_data, hashes, block_size) ==
    \/ file_data = <<>>
    \/ hashes = <<>>
    \/ hex_encode_sha1(SubSeq(file_data, 1, Min(block_size, Len(file_data)))) = hashes[1]

verify_file_blocks(file_data, hashes, block_size) ==
    BlocksFrom(file_data, hashes, block_size, [current_offset |-> 0, block_index |-> 0])

\* verify_patch, downloader.rs 141-167, as the bool it returns.
verify_patch(p, f) ==
    IF ~f.exists THEN FALSE
    ELSE IF Len(f.data) # p.length THEN FALSE
    ELSE IF p.hashes # None /\ p.hash_block_size # None
         THEN verify_file_blocks(f.data, p.hashes[1], p.hash_block_size[1])
         ELSE TRUE

InitVerifyPatch ==
    /\ orchestrator = "verify_patch"
    /\ PatchIdle

\* A patch entry of the patch list, and what is at file_path.
DownloadedPatch ==
    /\ orchestrator = "verify_patch"
    /\ vpc = "idle"
    /\ patch' \in PatchEntries
    /\ patchFile' \in {Absent} \cup {File(d) : d \in FileDatas}
    /\ vpc' = "downloaded"
    /\ UNCHANGED verified
    /\ UNCHANGED exceptVerify

VerifyPatch ==
    /\ orchestrator = "verify_patch"
    /\ vpc = "downloaded"
    /\ verified' = verify_patch(patch, patchFile)
    /\ vpc' = "verified"
    /\ UNCHANGED <<patch, patchFile>>
    /\ UNCHANGED exceptVerify

NextVerifyPatch ==
    \/ DownloadedPatch
    \/ VerifyPatch

SpecVerifyPatch == InitVerifyPatch /\ [][NextVerifyPatch]_vars

\* ---- spawn_with_binary and an arbitrary program behind the worker path ----
\* find_patcher_binary takes whatever file sits under the worker's name
\* (client.rs 53-77); the process it becomes can connect or not and can
\* write any PatcherResponse (ipc/protocol.rs 39-82) in any order.
Responses == {"Ready", "Progress", "PatchCompleted", "AllCompleted", "Error", "Cancelled"}

\* run_patching has downloaded and verified the whole batch and is about to
\* spawn the worker (patching.rs 426-433).
InitHandshake ==
    /\ orchestrator = "handshake"
    /\ batch \in Batches
    /\ version_repo \in (IF batch \in BootBatches THEN {"Some"} ELSE {"Some", "None"})
    /\ AppIdle
    /\ lpc = "spawn"
    /\ upc = "idle"
    /\ cpc = [c \in Calls |-> "idle"]
    /\ tpc = [c \in Calls |-> "none"]
    /\ index = Len(batch) + 1
    /\ downloaded_patches = [i \in PatchIdx |-> i]
    /\ set_idx = 1
    /\ is_patching = TRUE
    /\ phase = "Applying"
    /\ cancel_requested = FALSE
    /\ lastEvent = "patch_progress"
    /\ stream = "none"
    /\ is_running = FALSE
    /\ child_process = "none"
    /\ l2w = <<>>
    /\ w2l = <<>>
    /\ recvCause = "none"
    /\ wpc = "none"
    /\ widx = 1
    /\ wpatches = <<>>
    /\ CANCELLED = FALSE
    /\ wexit = "none"
    /\ versionFile = [r \in Repos |-> 0]
    /\ bckFile = [r \in Repos |-> -1]
    /\ files = [i \in PatchIdx |-> "complete"]
    /\ uidx = 1
    /\ dlLog = [i \in PatchIdx |-> i]
    /\ vfLog = [i \in PatchIdx |-> i]
    /\ applyLog = <<>>
    /\ applyResult = [i \in PatchIdx |-> "none"]
    /\ failure = 0
    /\ cancelSent = "no"
    /\ terminal = "none"
    /\ reported = <<>>

\* The spawned program connects to the socket named by its argument.
PeerConnect ==
    /\ orchestrator = "handshake"
    /\ wpc = "start"
    /\ LauncherEndOpen
    /\ wpc' = "peer"
    /\ UNCHANGED <<widx, wpatches, CANCELLED, wexit>>
    /\ UNCHANGED <<appVars, cycleVars, launcherVars, stateVars, ipcVars, diskVars,
                   useCaseVars, commandVars, histVars>>

\* The connected program writes one response.
PeerRespond(type) ==
    /\ orchestrator = "handshake"
    /\ wpc = "peer"
    /\ LauncherEndOpen
    /\ Len(l2w) + Len(w2l) < MaxFrames
    /\ w2l' = Append(w2l, Msg(type, 0))
    /\ UNCHANGED <<stream, is_running, child_process, l2w, recvCause>>
    /\ UNCHANGED <<appVars, cycleVars, launcherVars, stateVars, workerVars, diskVars,
                   useCaseVars, commandVars, histVars>>

\* The connected program reads one request.
PeerTake ==
    /\ orchestrator = "handshake"
    /\ wpc = "peer"
    /\ l2w # <<>>
    /\ l2w' = Tail(l2w)
    /\ UNCHANGED <<stream, is_running, child_process, w2l, recvCause>>
    /\ UNCHANGED <<appVars, cycleVars, launcherVars, stateVars, workerVars, diskVars,
                   useCaseVars, commandVars, histVars>>

\* The spawned program ends, connected or not.
PeerExit ==
    /\ orchestrator = "handshake"
    /\ WorkerAlive
    /\ WorkerEnds("ok")
    /\ UNCHANGED <<dlLog, vfLog, applyLog, failure, cancelSent, terminal, reported>>
    /\ UNCHANGED <<appVars, cycleVars, launcherVars, stateVars, ipcVars, diskVars,
                   useCaseVars, commandVars>>

NextHandshake ==
    \/ RunBind
    \/ RunSpawn
    \/ RunAccept
    \/ RunReadReady
    \/ RunStartPatch
    \/ RunShutdown
    \/ RunReturn
    \/ PeerConnect
    \/ \E type \in Responses : PeerRespond(type)
    \/ PeerTake
    \/ PeerExit

SpecHandshake == InitHandshake /\ [][NextHandshake]_vars

\* ---- framing of IPC messages: ipc/protocol.rs 84-109 ----------------------
\* A frame is a 4-byte big-endian length and the bincode payload. Sizes are
\* those of bincode::serialize: a u32 variant tag, a u64 length before every
\* string and vector, one byte for an Option tag and for a bool. Version
\* strings are 20 bytes, a local patch path 64, the game path 32, a SHA-1 in
\* hex 40. All sizes here are below 2^31, so `payload.len() as u32` does not
\* wrap.
MaxWire == 1

\* hashes of a PatchEntry as parse_patch_list builds it (patch/server.rs
\* 79-89): None, or every further tab-separated field of the line, however
\* many there are. Some(n) stands for n hex strings.
HashLists == {None, Some(1), Some(MAX_MESSAGE_SIZE \div 48)}
WirePatches == {<<h>> : h \in HashLists}
    \cup {<<h1, h2>> : h1 \in HashLists, h2 \in {None, Some(1)}}

string_size(len) == 8 + len

\* PatchEntry, entities.rs 262-277: version_id, url, length, hash_type,
\* hash_block_size, hashes, repository.
patch_entry_size(hashes) ==
    string_size(20) + string_size(64) + 8
        + (1 + IF hashes = None THEN 0 ELSE string_size(4))
        + (1 + IF hashes = None THEN 0 ELSE 8)
        + (1 + IF hashes = None THEN 0 ELSE 8 + hashes[1] * string_size(40))
        + 4

RECURSIVE patches_size(_)
patches_size(ps) ==
    IF ps = <<>> THEN 0 ELSE patch_entry_size(Head(ps)) + patches_size(Tail(ps))

\* Messages of both enums that the program builds.
WireRequests ==
    {[type |-> t, patches |-> <<>>] : t \in {"Hello", "Cancel", "Shutdown"}}
        \cup {[type |-> "StartPatch", patches |-> ps] : ps \in WirePatches}
ErrorMessageLens == {16, 256}
WireResponses ==
    {[type |-> t, message |-> 0] : t \in Responses \ {"Error"}}
        \cup {[type |-> "Error", message |-> n] : n \in ErrorMessageLens}

\* bincode::serialize(msg).len()
payload_size(msg) ==
    4 + CASE msg.type = "Hello" -> 4
          [] msg.type = "StartPatch" -> 8 + patches_size(msg.patches) + string_size(32) + 1
          [] msg.type = "Progress" -> 8 + 8 + string_size(20) + 4 + 4 + 8 + 8
          [] msg.type = "PatchCompleted" -> 8 + string_size(20)
          [] msg.type = "Error" -> string_size(msg.message)
          [] OTHER -> 0

\* serialize_message, protocol.rs 95-104: the length is written as it is;
\* nothing compares it with MAX_MESSAGE_SIZE.
serialize_message(msg) ==
    [len |-> payload_size(msg), payload |-> payload_size(msg), msg |-> msg]

\* recv_internal, client.rs 192-226, and recv_message, main.rs 146-172: read
\* the header, refuse a length above MAX_MESSAGE_SIZE, else allocate len
\* bytes, read them and deserialize.
receive(frame) ==
    IF frame.len > MAX_MESSAGE_SIZE
    THEN [result |-> [kind |-> "err"], allocated |-> 0, payloadRead |-> 0]
    ELSE [result |-> [kind |-> "ok", msg |-> frame.msg],
          allocated |-> frame.len, payloadRead |-> frame.len]

InitFraming ==
    /\ orchestrator = "framing"
    /\ PatchIdle

\* send_internal, client.rs 168-189: serialize, write, flush.
SendInternal(request) ==
    /\ orchestrator = "framing"
    /\ Len(wire["l2w"]) < MaxWire
    /\ recvResult["l2w"].kind # "err"
    /\ wire' = [wire EXCEPT !["l2w"] = Append(@, serialize_message(request))]
    /\ UNCHANGED <<allocated, payloadRead, recvResult>>
    /\ UNCHANGED exceptFraming

\* send_message, main.rs 132-143: serialize, write, flush.
SendMessage(response) ==
    /\ orchestrator = "framing"
    /\ Len(wire["w2l"]) < MaxWire
    /\ recvResult["w2l"].kind # "err"
    /\ wire' = [wire EXCEPT !["w2l"] = Append(@, serialize_message(response))]
    /\ UNCHANGED <<allocated, payloadRead, recvResult>>
    /\ UNCHANGED exceptFraming

\* What a receive leaves behind in direction d.
Received(d) ==
    LET r == receive(Head(wire[d]))
    IN  /\ recvResult' = [recvResult EXCEPT ![d] = r.result]
        /\ allocated' = [allocated EXCEPT ![d] = r.allocated]
        /\ payloadRead' = [payloadRead EXCEPT ![d] = r.payloadRead]
        /\ wire' = [wire EXCEPT ![d] = Tail(@)]

\* The launcher takes the next frame, client.rs 192-226; after an Err it
\* gives the client up.
RecvInternal ==
    /\ orchestrator = "framing"
    /\ wire["w2l"] # <<>>
    /\ recvResult["w2l"].kind # "err"
    /\ Received("w2l")
    /\ UNCHANGED exceptFraming

\* The worker takes the next frame, main.rs 146-172; after an Err it leaves
\* its loop.
RecvMessage ==
    /\ orchestrator = "framing"
    /\ wire["l2w"] # <<>>
    /\ recvResult["l2w"].kind # "err"
    /\ Received("l2w")
    /\ UNCHANGED exceptFraming

NextFraming ==
    \/ \E request \in WireRequests : SendInternal(request)
    \/ \E response \in WireResponses : SendMessage(response)
    \/ RecvInternal
    \/ RecvMessage

SpecFraming == InitFraming /\ [][NextFraming]_vars

\* ---- HTTP calls: check_boot_version and fetch_manifest ---------------------
\* patch/server.rs 111-154 and integrity/checker.rs 58-140.
MaxHttpCalls == 2

\* MAX_RETRIES: integrity/checker.rs 25
MAX_RETRIES == 3

\* What one request can come back with: a response with a status and a body
\* that parses or not, a transport error of send(), or (for the manifest
\* client) the MANIFEST_TIMEOUT elapsing first.
HttpResponse(status, body) == [kind |-> "response", status |-> status, body |-> body]
Answers ==
    {HttpResponse(s, "none") : s \in {204, 403, 404, 500, 503}}
        \cup {HttpResponse(200, b) : b \in {"parses", "garbage"}}
        \cup {[kind |-> k, status |-> 0, body |-> "none"] : k \in {"send_error", "timeout"}}

\* StatusCode::is_success, is_server_error
is_success(a) == a.status >= 200 /\ a.status <= 299
is_server_error(a) == a.status >= 500 /\ a.status <= 599

RECURSIVE pow2(_)
pow2(n) == IF n = 0 THEN 1 ELSE 2 * pow2(n - 1)

\* What check_boot_version does with the answer to its one request,
\* server.rs 124-153: 204 is "no patches", any other non-success status is an
\* error, a success body goes to parse_patch_list.
boot_version_result(a) ==
    IF a.kind # "response" THEN "Err(Network)"
    ELSE IF a.status = 204 THEN "Ok"
    ELSE IF ~is_success(a) THEN "Err(PatchServer)"
    ELSE IF a.body = "parses" THEN "Ok"
    ELSE "Err(PatchServer)"

\* Mutant: one attempt more than MAX_RETRIES.
manifest_attempt_OneMore(n, a) ==
    IF a.kind = "response" /\ is_server_error(a) /\ n < MAX_RETRIES
    THEN [next |-> "continue", sleep |-> <<pow2(n)>>, result |-> "none"]
    ELSE [next |-> "return", sleep |-> <<>>, result |-> "Err(Network)"]

\* One pass of the loop of fetch_manifest_from_network with attempt = n,
\* checker.rs 64-103: whether the loop goes on, the seconds it sleeps first
\* (none for a timeout) and the value it returns otherwise.
manifest_attempt(n, a) ==
    IF a.kind = "response"
    THEN IF a.status = 404
         THEN [next |-> "return", sleep |-> <<>>, result |-> "Err(IntegrityManifestNotFound)"]
         ELSE IF is_server_error(a) /\ n < MAX_RETRIES - 1
         THEN [next |-> "continue", sleep |-> <<pow2(n)>>, result |-> "none"]
         ELSE IF ~is_success(a)
         THEN [next |-> "return", sleep |-> <<>>, result |-> "Err(Network)"]
         ELSE IF a.body = "parses"
         THEN [next |-> "return", sleep |-> <<>>, result |-> "Ok"]
         ELSE [next |-> "return", sleep |-> <<>>, result |-> "Err(Network)"]
    ELSE IF n < MAX_RETRIES - 1
    THEN [next |-> "continue",
          sleep |-> IF a.kind = "send_error" THEN <<pow2(n)>> ELSE <<>>,
          result |-> "none"]
    ELSE [next |-> "return", sleep |-> <<>>, result |-> "Err(Network)"]

\* The cache file of a manifest version: missing, younger than CACHE_TTL_SECS
\* and parsing, older, or unreadable.
CacheStates == {"absent", "fresh", "stale", "garbage"}

InitHttp ==
    /\ orchestrator = "http"
    /\ PatchIdle

\* The manifest cache as a call finds it: time passes, files get damaged.
CacheAges ==
    /\ orchestrator = "http"
    /\ hpc = "idle"
    /\ hcalls < MaxHttpCalls
    /\ cache' \in CacheStates \ {cache}
    /\ cache # "absent" \/ cache' = "garbage"
    /\ cache' # "absent"
    /\ UNCHANGED <<hpc, hcall, attempt, answers, slept, hResult, hcalls>>
    /\ UNCHANGED exceptHttp

\* check_boot_version, server.rs 111-130: the boot hash is computed and the
\* one request is sent.
CheckBootVersion ==
    /\ orchestrator = "http"
    /\ hpc = "idle"
    /\ hcalls < MaxHttpCalls
    /\ hcall' = "check_boot_version"
    /\ hcalls' = hcalls + 1
    /\ attempt' = 0
    /\ answers' = <<>>
    /\ slept' = <<>>
    /\ \/ /\ hpc' = "sent"
          /\ hResult' = "none"
       \/ \* get_boot_version_hash fails on a boot file it cannot read
          /\ hpc' = "done"
          /\ hResult' = "Err(Io)"
    /\ UNCHANGED cache
    /\ UNCHANGED exceptHttp

\* check_boot_version, server.rs 130-153: the answer arrives and the call returns.
BootAnswer(a) ==
    /\ hcall = "check_boot_version"
    /\ hpc = "sent"
    /\ a.kind # "timeout"
    /\ answers' = Append(answers, a)
    /\ hResult' = boot_version_result(a)
    /\ hpc' = "done"
    /\ UNCHANGED <<hcall, attempt, slept, cache, hcalls>>
    /\ UNCHANGED exceptHttp

\* fetch_manifest, checker.rs 110-129: a fresh cache file that parses is
\* returned without any request; otherwise the network loop starts.
FetchManifest ==
    /\ orchestrator = "http"
    /\ hpc = "idle"
    /\ hcalls < MaxHttpCalls
    /\ hcall' = "fetch_manifest"
    /\ hcalls' = hcalls + 1
    /\ attempt' = 0
    /\ answers' = <<>>
    /\ slept' = <<>>
    /\ IF cache = "fresh"
       THEN /\ hpc' = "done"
            /\ hResult' = "Ok"
       ELSE /\ hpc' = "sent"
            /\ hResult' = "none"
    /\ UNCHANGED cache
    /\ UNCHANGED exceptHttp

\* One pass of the network loop, checker.rs 64-103, and on Ok the cache
\* write of fetch_manifest, 132-139 (its failure is ignored).
ManifestAnswer(a) ==
    /\ hcall = "fetch_manifest"
    /\ hpc = "sent"
    /\ answers' = Append(answers, a)
    /\ LET step == manifest_attempt(attempt, a)
       IN  /\ slept' = slept \o step.sleep
           /\ hResult' = step.result
           /\ IF step.next = "continue"
              THEN /\ attempt' = attempt + 1
                   /\ UNCHANGED <<hpc, cache>>
              ELSE /\ hpc' = "done"
                   /\ UNCHANGED attempt
                   /\ IF step.result = "Ok"
                      THEN cache' \in {"fresh", cache}
                      ELSE UNCHANGED cache
    /\ UNCHANGED <<hcall, hcalls>>
    /\ UNCHANGED exceptHttp

\* The caller has the result.
HttpReturn ==
    /\ orchestrator = "http"
    /\ hpc = "done"
    /\ hpc' = "idle"
    /\ UNCHANGED <<hcall, attempt, answers, slept, hResult, cache, hcalls>>
    /\ UNCHANGED exceptHttp

NextHttp ==
    \/ CacheAges
    \/ CheckBootVersion
    \/ \E a \in Answers : BootAnswer(a)
    \/ FetchManifest
    \/ \E a \in Answers : ManifestAnswer(a)
    \/ HttpReturn

SpecHttp == InitHttp /\ [][NextHttp]_vars

\* ---- recv_internal under timeouts: ipc/client.rs 192-226 ------------------
\* The worker's frames reach the launcher's socket as a byte stream; the
\* launcher calls recv_internal again and again, as receive_progress does
\* with a 100 ms timeout (client.rs 333-340).
MaxSent == 2
MaxTimeouts == 2
MESSAGE_HEADER_SIZE == 4

\* The unit variants of PatcherResponse and their bincode variant index:
\* protocol.rs 41-82
UnitResponses == {"Ready", "AllCompleted", "Cancelled"}
variant_index(m) ==
    CASE m = "Ready" -> 0
      [] m = "AllCompleted" -> 3
      [] m = "Cancelled" -> 5

u32_be(b) == ((b[1] * 256 + b[2]) * 256 + b[3]) * 256 + b[4]
u32_le(b) == ((b[4] * 256 + b[3]) * 256 + b[2]) * 256 + b[1]
to_be_bytes(n) == <<n \div 16777216, (n \div 65536) % 256, (n \div 256) % 256, n % 256>>

\* bincode::serialize of a unit variant: the variant index as a u32, little
\* endian: protocol.rs 96
bincode_serialize(m) == <<variant_index(m), 0, 0, 0>>

\* serialize_message of a unit variant: protocol.rs 95-104
frame_bytes(m) == to_be_bytes(Len(bincode_serialize(m))) \o bincode_serialize(m)

\* deserialize_message, protocol.rs 107-109: bincode reads the variant index
\* and ignores trailing bytes; a variant with fields needs at least 20 more
\* bytes than any payload here has.
deserialize_message(payload) ==
    IF Len(payload) < 4 THEN "Err"
    ELSE LET tag == u32_le(SubSeq(payload, 1, 4))
         IN  IF \E m \in UnitResponses : variant_index(m) = tag
             THEN CHOOSE m \in UnitResponses : variant_index(m) = tag
             ELSE "Err"

InitRecvTimeout ==
    /\ orchestrator = "recv"
    /\ PatchIdle

\* send_message, main.rs 131-142: write_all of the frame, then flush.
RtSendMessage(m) ==
    /\ orchestrator = "recv"
    /\ Len(sentMsgs) < MaxSent
    /\ sentMsgs' = Append(sentMsgs, m)
    /\ transit' = transit \o frame_bytes(m)
    /\ UNCHANGED <<sock, rxpc, rxbuf, rxlen, delivered, timeouts, rxResult>>
    /\ UNCHANGED exceptRecv

\* The next byte of the stream arrives at the launcher's socket.
RtArrive ==
    /\ orchestrator = "recv"
    /\ transit # <<>>
    /\ sock' = Append(sock, Head(transit))
    /\ transit' = Tail(transit)
    /\ UNCHANGED <<sentMsgs, rxpc, rxbuf, rxlen, delivered, timeouts, rxResult>>
    /\ UNCHANGED exceptRecv

\* recv_internal is called: client.rs 192-200
RtRecvCall ==
    /\ orchestrator = "recv"
    /\ rxpc = "idle"
    /\ rxpc' = "header"
    /\ rxbuf' = <<>>
    /\ rxResult' = "pending"
    /\ UNCHANGED <<sentMsgs, transit, sock, rxlen, delivered, timeouts>>
    /\ UNCHANGED exceptRecv

\* The receive ends with a payload in hand: client.rs 222-225
RtDeserialize(payload) ==
    /\ rxpc' = "idle"
    /\ rxbuf' = <<>>
    /\ IF deserialize_message(payload) = "Err"
       THEN /\ rxResult' = "deserialize error"
            /\ UNCHANGED delivered
       ELSE /\ rxResult' = "ok"
            /\ delivered' = Append(delivered, deserialize_message(payload))

\* read_exact(&mut header) takes a byte; with the fourth the length is
\* decoded and checked: client.rs 200-213
RtReadHeader ==
    /\ orchestrator = "recv"
    /\ rxpc = "header"
    /\ sock # <<>>
    /\ sock' = Tail(sock)
    /\ LET header == Append(rxbuf, Head(sock))
       IN  IF Len(header) < MESSAGE_HEADER_SIZE
           THEN /\ rxbuf' = header
                /\ UNCHANGED <<rxpc, rxlen, delivered, rxResult>>
           ELSE /\ rxlen' = u32_be(header)
                /\ IF u32_be(header) > MAX_MESSAGE_SIZE
                   THEN /\ rxpc' = "idle"
                        /\ rxbuf' = <<>>
                        /\ rxResult' = "message too large"
                        /\ UNCHANGED delivered
                   ELSE IF u32_be(header) = 0
                   THEN RtDeserialize(<<>>)
                   ELSE /\ rxpc' = "payload"
                        /\ rxbuf' = <<>>
                        /\ UNCHANGED <<delivered, rxResult>>
    /\ UNCHANGED <<sentMsgs, transit, timeouts>>
    /\ UNCHANGED exceptRecv

\* read_exact(&mut payload) takes a byte; with the last one the payload is
\* deserialized: client.rs 216-225
RtReadPayload ==
    /\ orchestrator = "recv"
    /\ rxpc = "payload"
    /\ sock # <<>>
    /\ sock' = Tail(sock)
    /\ LET payload == Append(rxbuf, Head(sock))
       IN  IF Len(payload) < rxlen
           THEN /\ rxbuf' = payload
                /\ UNCHANGED <<rxpc, delivered, rxResult>>
           ELSE RtDeserialize(payload)
    /\ UNCHANGED <<sentMsgs, transit, rxlen, timeouts>>
    /\ UNCHANGED exceptRecv

\* The timer of tokio::time::timeout fires while read_exact waits for more
\* bytes: the read_exact future is dropped with the bytes it has already
\* taken from the stream, and recv_internal returns Err("recv timeout") or
\* Err("recv payload timeout"): client.rs 201-204 and 217-220
RtTimeout ==
    /\ orchestrator = "recv"
    /\ rxpc \in {"header", "payload"}
    /\ sock = <<>>
    /\ timeouts < MaxTimeouts
    /\ timeouts' = timeouts + 1
    /\ rxResult' = IF rxpc = "header" THEN "recv timeout" ELSE "recv payload timeout"
    /\ rxpc' = "idle"
    /\ rxbuf' = <<>>
    /\ UNCHANGED <<sentMsgs, transit, sock, rxlen, delivered>>
    /\ UNCHANGED exceptRecv

NextRecvTimeout ==
    \/ \E m \in UnitResponses : RtSendMessage(m)
    \/ RtArrive
    \/ RtRecvCall
    \/ RtReadHeader
    \/ RtReadPayload
    \/ RtTimeout

SpecRecvTimeout == InitRecvTimeout /\ [][NextRecvTimeout]_vars

\* ---- apply_patch with its parse_patch: zipatch/parser.rs 772-842 ----------
\* A patch file as parse_patch meets it: the 12 magic bytes are right or
\* wrong, and each chunk that follows either reads cleanly or makes
\* read_chunk return an error (a parser error, or ZiPatchChecksumMismatch
\* from the CRC comparison of read_chunk).
MaxFileChunks == 2
FileChunkTypes == {"ADIR", "DELD", "EOF_"}
FilePaths == {<<"a">>, <<"/", "a">>}
ChunkFaults == {"none", "parse", "crc"}
FileEntry == [type : FileChunkTypes, path : FilePaths, fault : ChunkFaults]
PatchFiles == [magic : BOOLEAN, entries : SeqsOf(FileEntry, MaxFileChunks)]

\* The error read_chunk returns for a chunk that does not read cleanly.
chunk_error(fault) ==
    IF fault = "crc" THEN "ZiPatchChecksumMismatch" ELSE "ZiPatchParse"

ParseErrors == {"ZiPatchInvalidMagic", "ZiPatchParse", "ZiPatchChecksumMismatch", "Io"}

InitParsePatch ==
    /\ orchestrator = "apply_patch"
    /\ PatchIdle

\* apply_patch is called and parse_patch opens the file: parser.rs 796, 773-774
ParseOpen ==
    /\ orchestrator = "apply_patch"
    /\ zpc = "idle"
    /\ \E f \in PatchFiles : zfile' = f
    /\ zpos' = 1
    /\ parsed' = <<>>
    /\ zpc' = "magic"
    /\ UNCHANGED <<chunks, created, deleted, zResult>>
    /\ UNCHANGED exceptParse

\* read_magic_header, parser.rs 46-55 and 777
ReadMagicHeader ==
    /\ orchestrator = "apply_patch"
    /\ zpc = "magic"
    /\ IF zfile.magic
       THEN /\ zpc' = "read_chunk"
            /\ UNCHANGED zResult
       ELSE /\ zpc' = "returned"
            /\ zResult' = "ZiPatchInvalidMagic"
    /\ UNCHANGED <<chunks, created, deleted, zfile, zpos, parsed>>
    /\ UNCHANGED exceptParse

\* Mutant: a chunk is applied as soon as it is read.
OnChunkRead_Applied(chunk) ==
    /\ parsed' = Append(parsed, chunk)
    /\ created' = IF chunk.type = "ADIR"
                  THEN created \cup {trim_start_slashes(chunk.path)} ELSE created
    /\ deleted' = IF chunk.type = "DELD"
                  THEN deleted \cup {trim_start_slashes(chunk.path)} ELSE deleted

\* chunks.push(chunk), parser.rs 782-784: the chunk is kept, nothing is applied.
OnChunkRead(chunk) ==
    /\ parsed' = Append(parsed, chunk)
    /\ UNCHANGED <<created, deleted>>

\* One turn of the loop of parse_patch, parser.rs 781-789: read_chunk fails
\* (the file ends, the chunk does not parse, its CRC differs) and `?` returns
\* through apply_patch, or the chunk is pushed; after EOF_ parse_patch returns
\* the Vec and the for loop of apply_patch starts on it.
ParseChunk ==
    /\ orchestrator = "apply_patch"
    /\ zpc = "read_chunk"
    /\ IF zpos > Len(zfile.entries)
       THEN /\ zpc' = "returned"
            /\ zResult' = "Io"
            /\ UNCHANGED <<chunks, created, deleted, zpos, parsed>>
       ELSE LET e == zfile.entries[zpos]
                chunk == [type |-> e.type, path |-> e.path]
            IN  IF e.fault # "none"
                THEN /\ zpc' = "returned"
                     /\ zResult' = chunk_error(e.fault)
                     /\ UNCHANGED <<chunks, created, deleted, zpos, parsed>>
                ELSE /\ OnChunkRead(chunk)
                     /\ zpos' = zpos + 1
                     /\ UNCHANGED zResult
                     /\ IF e.type = "EOF_"
                        THEN /\ chunks' = Append(parsed, chunk)
                             /\ zpc' = "chunks"
                        ELSE UNCHANGED <<chunks, zpc>>
    /\ UNCHANGED zfile
    /\ UNCHANGED exceptParse

NextParsePatch ==
    \/ ParseOpen
    \/ ReadMagicHeader
    \/ ParseChunk
    \/ ApplyChunk
    \/ ApplyReturn

SpecParsePatch == InitParsePatch /\ [][NextParsePatch]_vars

\* ---- verify_integrity commands side by side: commands/integrity.rs 139-275 -
\* Tauri runs each invocation of an async command as its own task; the
\* IntegrityState sits behind one RwLock that is taken and released around
\* each block, so the calls interleave at the awaits between the blocks.
integrityRest ==
    <<cancelled, icpc, manifest, pending, results, reads, hashed, icResult, cancelPending>>

InitVerifyCalls ==
    /\ orchestrator = "verify_calls"
    /\ PatchIdle

\* Check if already checking: integrity.rs 144-150
VcCheck(c) ==
    /\ orchestrator = "verify_calls"
    /\ vcpc[c] = "idle"
    /\ vcpc' = [vcpc EXCEPT ![c] = IF is_checking THEN "rejected" ELSE "fetching"]
    /\ UNCHANGED <<is_checking, integrity_cancel_requested, resets, integrityRest>>
    /\ UNCHANGED exceptVerifyCalls

\* get_game_path, get_game_version and fetch_manifest, then the set-up block:
\* integrity.rs 152-176.  An Err of the first three returns through `?`.
VcSetUp(c) ==
    /\ orchestrator = "verify_calls"
    /\ vcpc[c] = "fetching"
    /\ \/ /\ vcpc' = [vcpc EXCEPT ![c] = "checking"]
          /\ is_checking' = TRUE
          /\ integrity_cancel_requested' = FALSE
       \/ /\ vcpc' = [vcpc EXCEPT ![c] = "err"]
          /\ UNCHANGED <<is_checking, integrity_cancel_requested>>
    /\ UNCHANGED <<resets, integrityRest>>
    /\ UNCHANGED exceptVerifyCalls

\* check_integrity returns: on Err a task is spawned that will reset the
\* flag (integrity.rs 214-227); on Ok the result is built and the flag is
\* reset before the return (229-274).
VcCheckEnd(c) ==
    /\ orchestrator = "verify_calls"
    /\ vcpc[c] = "checking"
    /\ \/ /\ vcpc' = [vcpc EXCEPT ![c] = "ok"]
          /\ is_checking' = FALSE
          /\ UNCHANGED resets
       \/ /\ vcpc' = [vcpc EXCEPT ![c] = "err"]
          /\ resets' = resets + 1
          /\ UNCHANGED is_checking
    /\ UNCHANGED <<integrity_cancel_requested, integrityRest>>
    /\ UNCHANGED exceptVerifyCalls

\* The spawned reset task runs: integrity.rs 221-224
VcResetTask ==
    /\ orchestrator = "verify_calls"
    /\ resets > 0
    /\ resets' = resets - 1
    /\ is_checking' = FALSE
    /\ UNCHANGED <<vcpc, integrity_cancel_requested, integrityRest>>
    /\ UNCHANGED exceptVerifyCalls

NextVerifyCalls ==
    \/ \E c \in Calls : VcCheck(c) \/ VcSetUp(c) \/ VcCheckEnd(c)
    \/ VcResetTask

SpecVerifyCalls == InitVerifyCalls /\ [][NextVerifyCalls]_vars

\* ==== properties ===========================================================
StrictlyIncreasing(s) == \A k \in 1..Len(s) - 1 : s[k] < s[k + 1]
InListOrder(s) == \A k \in 1..Len(s) : s[k] = k
Elems(s) == {s[k] : k \in 1..Len(s)}

\* The repositories a batch touches and the last patch it holds for each.
Touched == {batch[i] : i \in PatchIdx}
LastFor(r) == CHOOSE i \in PatchIdx :
                 /\ batch[i] = r
                 /\ \A j \in PatchIdx : batch[j] = r => j <= i

\* C1: a Cancel sent while the worker is processing the batch of a StartPatch
\* makes the worker stop at the next patch boundary (it passes no further
\* boundary into another patch) and Cancelled is the terminal message of
\* that batch.
C1_CancelStopsAtBoundary ==
    /\ [][(cancelSent = "in_batch" /\ wpc = "loop_top") => wpc' # "check_file"]_vars
    /\ []((cancelSent = "in_batch" /\ terminal # "none") => terminal = "Cancelled")

\* The patch after patch i has begun while no later result is in yet.
NextBegun(i) ==
    \/ orchestrator = "use_case" /\ uidx = i + 1 /\ upc \in {"download", "verify", "apply"}
    \/ i + 1 \in PatchIdx /\ applyResult[i + 1] = "running"

\* C2: once patch i has been applied successfully at version V, the version
\* file of its repository reads V by the time the next patch of the batch
\* begins.
C2_VersionWrittenBeforeNextPatch ==
    \A i \in PatchIdx :
        (applyResult[i] = "ok" /\ NextBegun(i))
            => get_version(repository(i)) = version_id(i)

\* C3: when downloading, verifying or applying a patch of the batch has
\* failed, no later entry of the batch is applied.
C3_NoApplyAfterFailure ==
    failure # 0 => \A k \in 1..Len(applyLog) : applyLog[k] <= failure

C3_Witness ==
    /\ Len(batch) = 2
    /\ failure = 1
    /\ applyResult[1] = "failed"
    /\ applyResult[2] = "none"
    /\ terminal = "Error"
    /\ lpc = "done"

\* C4: when applying patch i fails part-way, the version file of its
\* repository is not advanced to the version of patch i, so the server
\* offers the same patch again.
C4_FailedApplyLeavesVersion ==
    \A i \in PatchIdx :
        applyResult[i] = "failed" => get_version(repository(i)) < version_id(i)

\* The cycle reported the whole batch as applied.
ReportedSuccess ==
    \/ orchestrator = "run_patching" /\ lastEvent = "patch_all_completed"
    \/ orchestrator = "use_case" /\ upc = "completed"

\* C5: for a batch B the cycle reports as applied successfully, get_version(r)
\* equals the version of the last patch of B for r, for every repository r
\* that B touches.
C5_VersionsAfterSuccess ==
    ReportedSuccess =>
        \A r \in Touched : get_version(r) = version_id(LastFor(r))

\* C6: a progress receive that timed out at 100 ms is retried: the launcher
\* is back at the top of the poll loop and the cycle goes on.
C6_TimeoutIsRetried ==
    recvCause = "timeout" => lpc = "poll_top"

\* C7: at most one update cycle is active at any time.
C7_AtMostOneActiveCycle ==
    Cardinality({c \in Calls : tpc[c] = "running"}) <= 1

\* C8: the patches of a batch are downloaded, verified and applied in list
\* order (a patch is verified only after its download and applied only after
\* its verification), and each PatchEntry is applied at most once.
C8_ListOrderAtMostOnce ==
    /\ InListOrder(dlLog)
    /\ InListOrder(vfLog)
    /\ StrictlyIncreasing(applyLog)
    /\ Elems(vfLog) \subseteq Elems(dlLog)
    /\ Elems(applyLog) \subseteq Elems(vfLog)

C8_Witness ==
    /\ Len(batch) = 2
    /\ applyLog = <<1, 2>>
    /\ applyResult[1] = "ok"
    /\ applyResult[2] = "ok"
    /\ (terminal = "AllCompleted" \/ upc = "completed")

\* C9: between StartPatch and the end of the worker's work on the batch the
\* worker is the sole writer of the game tree: no version file changes while
\* the worker is inside apply_patches.
C9_LauncherKeepsOffTree ==
    [][WorkerInBatch => (versionFile' = versionFile /\ bckFile' = bckFile)]_vars

\* A receive_progress call ends in this step.
RecvReturns == lpc = "recv_wait" /\ lpc' # "recv_wait"

\* C10 as stated: with the worker process gone, a pending receive fails with
\* the "patcher died" error.
C10_PendingReceiveFailsDied ==
    [][(wpc = "exited" /\ RecvReturns) => recvCause' = "died"]_vars

\* C10, amended: with the worker process gone, a receive_progress that starts
\* fails with "patcher process died"; one already past the liveness check
\* hands over a message the worker sent before it went or, when nothing is
\* buffered, fails with a read error; it can always return, never as a
\* timeout, and every failure ends the cycle as Failed.
C10_ReceiveAfterWorkerGone ==
    /\ [][(wpc = "exited" /\ lpc = "poll_top" /\ ~cancel_requested /\ lpc' # lpc)
            => (recvCause' = "died" /\ phase' = "Failed" /\ lpc' = "shutdown_exit")]_vars
    /\ [][(wpc = "exited" /\ RecvReturns)
            => IF w2l = <<>>
               THEN recvCause' = "eof" /\ phase' = "Failed" /\ lpc' = "shutdown_exit"
               ELSE recvCause' = Head(w2l).type]_vars
    /\ []((wpc = "exited" /\ lpc = "recv_wait") => ENABLED RunRecv)

C10_Witness ==
    /\ wexit = "signal"
    /\ recvCause = "eof"
    /\ phase = "Failed"

\* C11: a failed Verifying step removes the patch file it was verifying,
\* touches no version file and is reported with recoverable = true.
C11_FailedVerifyRemovesFile ==
    [][(vfLog' # vfLog /\ failure' # failure)
        => /\ files'[failure'] = "absent"
           /\ versionFile' = versionFile /\ bckFile' = bckFile
           /\ orchestrator = "run_patching" => lastEvent' = "patch_error:recoverable"]_vars

\* The update cycle has ended (run_patching returned, apply_patches returned).
CycleEnded ==
    \/ orchestrator = "run_patching" /\ lpc = "done"
    \/ orchestrator = "use_case" /\ upc \in {"completed", "failed"}

\* C12: the scratch patch directory is removed when its cycle completes and
\* partial patch files are deleted after a cancel: no patch file of an ended
\* cycle remains.
C12_NoPatchFileRemains ==
    CycleEnded => \A i \in PatchIdx : files[i] = "absent"

\* C13: the patch worker exits with code 0 when it receives Shutdown and
\* with a non-zero code when the frame it receives violates the protocol
\* (oversized or undecodable).
C13_ExitCodes ==
    [][(wpc = "recv" /\ wpc' = "exited" /\ l2w # <<>>)
        => (wexit' = "ok" <=> Head(l2w) = "Shutdown")]_vars

\* A path hands over the unique_id it read.
UsesUniqueId(p) == rpc[p] = "using" /\ rpc'[p] = "idle"

\* C14 as stated: a session is valid exactly while now - created_at < 24 h,
\* a read of an expired session treats it as absent, and no path uses the
\* unique_id of a session that is older than 24 h when it is used.
C14_NeverUsesExpiredSession ==
    /\ [](\A a \in AccountIds : get_session(a) # None =>
            (is_valid(get_session(a)[1], now) <=> now - get_session(a)[1].created_at < 86400))
    /\ [][\A p \in Paths : UsesUniqueId(p) => now - rsess[p].created_at < 86400]_vars

\* C14, amended: a session is valid exactly while now - created_at < 24 h;
\* a path that reads an expired session treats it as absent (it never goes on
\* to use it), and a path uses a unique_id only if the session was younger
\* than 24 h when the path checked it; the use itself can come later.
C14_ExpiredAtReadIsAbsent ==
    /\ [](\A a \in AccountIds : get_session(a) # None =>
            (is_valid(get_session(a)[1], now) <=> now - get_session(a)[1].created_at < 86400))
    /\ [](\A p \in Paths :
            /\ rpc[p] = "using" => rsess[p].checked_at - rsess[p].created_at < 86400
            /\ rpc[p] = "expired" => rsess[p].checked_at - rsess[p].created_at >= 86400)
    /\ [][\A p \in Paths : UsesUniqueId(p) =>
            rsess[p].checked_at - rsess[p].created_at < 86400]_vars
    /\ [][\A p \in Paths : rpc[p] = "expired" => rpc'[p] \in {"expired", "idle"}]_vars

\* A session exactly 24 h old has been read and found expired.
C14_Witness ==
    \E p \in Paths :
        /\ rpc[p] = "expired"
        /\ rsess[p].checked_at - rsess[p].created_at = 86400

\* The stored session of account a is 24 h old or older.
Expired(a) ==
    /\ get_session(a) # None
    /\ now - get_session(a)[1].created_at >= 86400

\* C15: a CachedSession is created only at the end of a successful
\* authentication, and after an explicit logout, an account deletion or the
\* 24 h expiry get_session for that account returns absent until the next
\* successful authentication.
C15_SessionDestroyed ==
    /\ [](\A a \in AccountIds : (ended[a] \/ Expired(a)) => get_session(a) = None)
    /\ [][\A a \in AccountIds :
            (keyring'[a] # keyring[a] /\ keyring'[a] # None)
                => (keyring'[a] = Some([created_at |-> now]) /\ ~ended'[a])]_vars

\* A repository call of task t writes the file in this step.
Saves(t) == apc[t] = "loaded" /\ apc'[t] = "returned"

\* C16: every save_account, delete_account and set_default_account is a
\* read-modify-write of the whole file that is not interleaved with another
\* one: the file a call overwrites is the file it loaded.
C16_ReadModifyWriteAtomic ==
    [][\A t \in Tasks : Saves(t) => accountsFile = aloaded[t]]_vars

\* C17: delete_account writes a store whose default pointer is null when
\* the pointer it loaded named the deleted account, and is the pointer it
\* loaded when that named another account or none; the deleted account is
\* gone from the store it writes.
C17_DeleteClearsDefault ==
    [][\A t \in Tasks :
        (Saves(t) /\ aop[t].kind = "delete_account") =>
            /\ accountsFile'.default_account =
                  IF aloaded[t].default_account = aop[t].id THEN "None"
                  ELSE aloaded[t].default_account
            /\ ~HasAccount(accountsFile', aop[t].id)]_vars

\* The default account has just been deleted and the pointer is null.
C17_Witness ==
    \E t \in Tasks :
        /\ apc[t] = "returned"
        /\ aop[t].kind = "delete_account"
        /\ aloaded[t].default_account = aop[t].id
        /\ HasAccount(aloaded[t], aop[t].id)
        /\ accountsFile.default_account = "None"
        /\ accountsFile.accounts # <<>>

\* C18: get_default_account returns the account the default pointer names;
\* when the pointer names none it returns the first account of the store;
\* it returns absent only when the store holds no account.
C18_DefaultAccount ==
    LET store == accountsFile
        result == get_default_account(store)
    IN  /\ \A k \in 1..Len(store.accounts) :
              store.accounts[k].id = store.default_account
                  => result = Some(store.accounts[k])
        /\ (~HasAccount(store, store.default_account) /\ store.accounts # <<>>)
              => result = Some(store.accounts[1])
        /\ result = None <=> store.accounts = <<>>

\* Two accounts, the pointer names the second one.
C18_Witness ==
    /\ Len(accountsFile.accounts) = 2
    /\ accountsFile.default_account = accountsFile.accounts[2].id
    /\ get_default_account(accountsFile) = Some(accountsFile.accounts[2])

\* The listener that start() call o started has neither been stopped by
\* stop() nor ended.
Live(o) ==
    /\ spc[o] = "returned"
    /\ srv[o] \in {"spawned", "serving"}
    /\ sig[o] # "sent"

\* C19: while a listener started by start() has neither been stopped nor
\* ended, every further start() returns an error, so at most one listener
\* is ever active.
C19_ConcurrentStartFails ==
    /\ [][\A s \in Starts :
            (spc[s] # "returned" /\ spc'[s] = "returned")
                => ~\E o \in Starts \ {s} : Live(o)]_vars
    /\ [](Cardinality({s \in Starts : srv[s] = "serving"}) <= 1)

\* C20: stop() can be called in every state and any number of times and
\* returns Ok; when it returns the running flag is clear and no Sender is
\* stored; a stop() that finds nothing stored changes nothing else; and every
\* receiver that was waiting for an OTP when stop() was called resolves, with
\* the OTP or as cancelled.
C20_StopIdempotentCancels ==
    /\ [](ENABLED Stop)
    /\ [][Stop => (~running' /\ shutdown_tx' = None)]_vars
    /\ [][(Stop /\ shutdown_tx = None) => UNCHANGED <<spc, srv, sig, rx>>]_vars
    /\ \A s \in Starts : (s \in stopped) ~> (rx[s] # "waiting")

\* stop() reached a listener whose receiver had no OTP: it is cancelled.
C20_Witness ==
    \E s \in Starts :
        /\ s \in stopped
        /\ sig[s] = "sent"
        /\ srv[s] = "ended"
        /\ rx[s] = "cancelled"
        /\ ~running

\* C21: whatever point of set_version a crash interrupts, the version file
\* stays readable: the get_version that follows returns the version that was
\* there before the call or the one the call was writing.
C21_CrashLeavesOldOrNew ==
    (got.read /\ svOld.ok) => got.result \in {svOld, Ok(svArg)}

\* C22: once cancellation of a running integrity check is requested, no
\* further file is hashed, and when entries were still waiting at the
\* request check_integrity returns the Cancelled error.
C22_CancelStopsIntegrityCheck ==
    /\ [][(is_checking /\ integrity_cancel_requested) => hashed' = hashed]_vars
    /\ [](/\ icpc = "collected"
          /\ cancelPending # None
          /\ cancelPending[1] # {}
          => icResult = "Cancelled")

\* C23: an entry whose manifest path contains ".." gets no result and no
\* file is read for it, and no path that check_integrity reads lies outside
\* the game root.
C23_TraversalEntriesSkipped ==
    /\ \A e \in manifest :
          contains_dotdot(e) =>
              /\ ~\E r \in results : r.relative_path = e
              /\ e \notin hashed
    /\ \A rel \in reads : ~contains_dotdot(rel) /\ ~OutsideGameRoot(rel)

\* A check ran to its end over a manifest with an entry that points above
\* the game root and an entry that was checked.
C23_Witness ==
    /\ icpc = "collected"
    /\ \E e \in manifest : OutsideGameRoot(replace(trim_start_matches(e)))
    /\ results # {}

\* C24: a chunk path that contains ".." is rejected before it is joined to
\* the game root, so apply_patch creates and deletes nothing at a path with
\* ".." and nothing outside the game root.
C24_ApplyStaysInGameRoot ==
    \A rel \in created \cup deleted : ~contains_dotdot(rel) /\ ~OutsideGameRoot(rel)

BlockOf(file_data, block_size, i) ==
    SubSeq(file_data, (i - 1) * block_size + 1, Min(i * block_size, Len(file_data)))
\* The blocks of the file that have a hash in the entry.
HashedBlocks(file_data, hashes, block_size) ==
    {i \in 1..Len(hashes) : (i - 1) * block_size < Len(file_data)}

Sends(m) == Len(l2w') = Len(l2w) + 1 /\ l2w'[Len(l2w')] = m

\* Where run_patching is once start_patch has returned Ok.
AfterStartPatch ==
    {"poll_top", "recv_wait", "shutdown_ok", "shutdown_exit", "wait_ok", "wait_exit",
     "set_versions", "cleanup", "mark_completed", "return", "done"}

\* A step of the launcher that asks the worker for no further work.
OnlyReceives ==
    /\ lpc' \in AfterStartPatch
    /\ ~Sends("StartPatch")
    /\ ~Sends("Hello")

\* The worker took a StartPatch and its process ended by itself (it was
\* neither killed nor did it crash).
BatchTakenAndWorkerReturned ==
    /\ wpatches # <<>>
    /\ wpc = "exited"
    /\ wexit \in {"ok", "error"}

\* C27: after the handshake the launcher sends exactly one StartPatch to a
\* worker and from then on asks for no further work (it sends neither Hello
\* nor a second StartPatch); every StartPatch the worker takes is answered
\* by exactly one terminal message (AllCompleted, Error or Cancelled) by the
\* time the worker returns, and once the terminal message is sent the worker
\* is out of the batch, so no Progress or PatchCompleted follows it.
C27_OneStartPatchOneTerminal ==
    /\ [][Sends("StartPatch") => lpc = "start_patch" /\ lpc' \in AfterStartPatch]_vars
    /\ [][(lpc \in AfterStartPatch) => OnlyReceives]_vars
    /\ [](BatchTakenAndWorkerReturned => terminal # "none")
    /\ [](terminal # "none" => wpc \in {"recv", "exited"})

\* spawn_with_binary returned Ok and the client is in use.
HandshakeDone == lpc \in {"start_patch", "poll_top", "recv_wait"}

\* The steps of the handshake, each taken only after the one before it.
HandshakeInOrder ==
    /\ (stream = "none" /\ stream' = "listening") => wpc = "none"
    /\ (wpc = "none" /\ wpc' # "none") => stream = "listening"
    /\ (stream = "listening" /\ stream' = "open") => wpc' \notin {"none", "start"}
    /\ (lpc = "read_ready" /\ w2l' # w2l) => stream = "open"
    /\ Sends("Hello") =>
          /\ stream = "open"
          /\ w2l # <<>>
          /\ Head(w2l).type = "Ready"
          /\ w2l' = Tail(w2l)
    /\ Sends("StartPatch") => lpc = "start_patch"
    /\ (lpc # "start_patch" /\ lpc' = "start_patch") => Sends("Hello")

\* A handshake that fails ends spawn with Err: run_patching returns and
\* nothing is sent.
FailedHandshakeSendsNothing ==
    /\ (lpc = "accept" /\ stream' # "open") => lpc' \in {"accept", "return"}
    /\ (lpc = "read_ready" /\ w2l # <<>> /\ Head(w2l).type # "Ready" /\ lpc' # lpc)
          => lpc' = "return"
    /\ (lpc \in {"return", "done"}) => (lpc' \in {"return", "done"} /\ Len(l2w') <= Len(l2w))

AtChunkBoundary == lpc = "downloading" /\ files[index] = "partial"

\* C29: in the download phase the cancel flag is observed between patches
\* and between download chunks: with a cancel requested, the loop starts no
\* further patch, and a download that has reached a chunk boundary writes no
\* further chunk and does not run to its end; the cycle then ends Cancelled
\* (or Failed, when the transfer breaks at that very moment).
C29_CancelStopsDownload ==
    /\ [][(lpc = "dl_top" /\ index <= Len(batch) /\ cancel_requested)
            => lpc' \in {"dl_top", "return"}]_vars
    /\ [][(AtChunkBoundary /\ cancel_requested /\ lpc' # lpc)
            => (lpc' = "return" /\ phase' \in {"Cancelled", "Failed"})]_vars

\* C30: message size is capped at 16 MiB in both directions: no frame on
\* the stream has a payload above MAX_MESSAGE_SIZE, and a receiver that
\* reads a length above MAX_MESSAGE_SIZE rejects the frame and neither
\* allocates nor reads its payload.
C30_MessageSizeCapped ==
    /\ [](\A d \in Directions : \A k \in 1..Len(wire[d]) :
            wire[d][k].payload <= MAX_MESSAGE_SIZE)
    /\ [][\A d \in Directions :
            (wire[d] # <<>> /\ Head(wire[d]).len > MAX_MESSAGE_SIZE /\ wire'[d] = Tail(wire[d]))
                => (recvResult'[d].kind = "err" /\ allocated'[d] = 0 /\ payloadRead'[d] = 0)]_vars

Last(s) == s[Len(s)]

\* C31: a boot-version check answered with a 5xx status is retried with
\* exponential backoff, with at most three attempts in all: the call returns
\* on a 5xx answer only when that answer was the third, after sleeps of 1 s
\* and 2 s.
C31_BootCheckRetries5xx ==
    hcall = "check_boot_version" =>
        /\ Len(answers) <= MAX_RETRIES
        /\ (hpc = "done" /\ answers # <<>> /\ is_server_error(Last(answers)))
              => (Len(answers) = MAX_RETRIES /\ slept = <<1, 2>>)

\* The attempts of the call that were followed by another attempt.
LastRetried == IF hpc = "sent" \/ answers = <<>> THEN Len(answers) ELSE Len(answers) - 1
Retried == 1..LastRetried

\* The delays the claim asks for: 2^(j-1) seconds after a failed attempt j
\* that got an answer or a transport error, none after a timeout.
RECURSIVE GrowingDelays(_)
GrowingDelays(j) ==
    IF j = 0 THEN <<>>
    ELSE GrowingDelays(j - 1)
            \o (IF answers[j].kind = "timeout" THEN <<>> ELSE <<pow2(j - 1)>>)

\* Every 5xx answer before the third attempt was followed by another attempt.
Retried5xx ==
    \A j \in 1..Len(answers) :
        (is_server_error(answers[j]) /\ j < MAX_RETRIES) => j \in Retried

\* C32: fetch_manifest retries a 5xx answer after exponentially growing
\* delays, makes at most three network attempts per call, and after the
\* third failed attempt returns an error.
C32_ManifestRetriesCapped ==
    hcall = "fetch_manifest" =>
        /\ Len(answers) <= MAX_RETRIES
        /\ Retried5xx
        /\ slept = GrowingDelays(LastRetried)
        /\ (Len(answers) = MAX_RETRIES /\ ~is_success(Last(answers)))
              => (hpc # "sent" /\ hResult \in {"Err(Network)", "Err(IntegrityManifestNotFound)"})

C32_Witness ==
    /\ hcall = "fetch_manifest"
    /\ hpc = "done"
    /\ Len(answers) = MAX_RETRIES
    /\ \A j \in 1..Len(answers) : is_server_error(answers[j])
    /\ slept = <<1, 2>>
    /\ hResult = "Err(Network)"

\* ---- C33 -----------------------------------------------------------------
\* Position of a PatchState in the order Pending, Downloading, Verifying,
\* Installing, then the two terminal states: entities.rs 287-301
StateRank(state) ==
    CASE state = "Pending" -> 0
      [] state = "Downloading" -> 1
      [] state = "Verifying" -> 2
      [] state = "Installing" -> 3
      [] state \in {"Completed", "Failed"} -> 4

TerminalPhases == {"Completed", "Cancelled", "Failed"}

\* The order of the non-terminal phases of one cycle.
PhaseRank(p) ==
    CASE p = "Idle" -> 0
      [] p \in {"Downloading", "Verifying"} -> 1
      [] p = "Applying" -> 2
      [] p \in TerminalPhases -> 3

\* C34: the phase of a cycle goes through Downloading and Verifying, then
\* Applying, then one terminal phase; a terminal phase is entered only when
\* the cycle is over (is_patching is false), and within the cycle no other
\* phase follows a terminal one.
C34_PhaseStateMachine ==
    /\ [](phase \in TerminalPhases => ~is_patching)
    /\ [][PhaseRank(phase) <= PhaseRank(phase')]_vars
    /\ [][(phase \in TerminalPhases) => phase' = phase]_vars

\* ---- C35 -----------------------------------------------------------------
\* C35: a version file holds version V of a batch only if apply_patch ran on
\* the patch file for V and returned Ok; a patch that was skipped or never
\* applied does not advance a version file.
C35_VersionOnlyAfterApply ==
    \A i \in PatchIdx :
        get_version(repository(i)) = version_id(i) => applyResult[i] = "ok"

\* ---- C36 -----------------------------------------------------------------
IsPrefix(s, t) == Len(s) <= Len(t) /\ s = SubSeq(t, 1, Len(s))

\* C36: whatever receives timed out before, the messages recv_internal
\* returns are the messages the worker sent, in order, with none dropped,
\* duplicated or cut at the wrong byte.
C36_FramingSurvivesTimeouts == IsPrefix(delivered, sentMsgs)

\* ---- C37 -----------------------------------------------------------------
\* run_patching has returned.
CycleOver == lpc \in {"return", "done"}

\* C37: every cycle that starts ends with the phase Completed, Failed or
\* Cancelled, and whenever run_patching has returned is_patching is false
\* again, so the guard of the start commands lets a later cycle in.
C37_CycleEndsAndFlagReset ==
    /\ (lpc = "spawned") ~> (CycleOver /\ phase \in TerminalPhases)
    /\ [](CycleOver => (~is_patching /\ phase \in TerminalPhases))

\* A cycle was cancelled in the poll loop and has returned.
C37_Witness ==
    /\ lpc = "done"
    /\ phase = "Cancelled"
    /\ cancelSent # "no"
    /\ ~is_patching

\* ---- C38 -----------------------------------------------------------------
\* The chunks parse_patch reads: up to and including the first EOF_.
RECURSIVE ReadPrefix(_)
ReadPrefix(entries) ==
    IF entries = <<>> THEN <<>>
    ELSE IF Head(entries).type = "EOF_" THEN <<Head(entries)>>
    ELSE <<Head(entries)>> \o ReadPrefix(Tail(entries))

\* The magic is wrong, or a chunk that parse_patch reads fails to parse or
\* fails its CRC.
Faulty(f) ==
    \/ ~f.magic
    \/ \E k \in 1..Len(ReadPrefix(f.entries)) : ReadPrefix(f.entries)[k].fault # "none"

\* C38: for a patch file with a wrong magic or a chunk that fails to parse or
\* fails its CRC, apply_patch creates and deletes nothing at any time and
\* returns the error of the parse.
C38_ParseBeforeApply ==
    (zpc # "idle" /\ Faulty(zfile)) =>
        /\ created = {}
        /\ deleted = {}
        /\ zpc = "returned" => zResult \in ParseErrors

\* A file whose first chunk is a clean ADIR and whose second chunk fails its
\* CRC: apply_patch has returned the mismatch.
C38_Witness ==
    /\ zpc = "returned"
    /\ zResult = "ZiPatchChecksumMismatch"
    /\ Len(parsed) = 1
    /\ parsed[1].type = "ADIR"

\* ---- C39 -----------------------------------------------------------------
\* The ids of the accounts in a store.
Present(store) == {store.accounts[k].id : k \in 1..Len(store.accounts)}

\* C39: whatever save_account, delete_account and set_default_account calls
\* were made, the default pointer of accounts.json is None or the id of an
\* account in the file; a set_default_account for an id that the store does
\* not hold returns without writing, so the file stays as it was.
C39_DefaultPointerValid ==
    /\ [](accountsFile.default_account \in {"None"} \cup Present(accountsFile))
    /\ [][\A t \in Tasks :
            (/\ Saves(t)
             /\ aop[t].kind = "set_default_account"
             /\ aop[t].id \notin Present(aloaded[t])) => accountsFile' = accountsFile]_vars

\* A set_default_account for an id that is not in the store has returned,
\* while the file holds another account as its default.
C39_Witness ==
    \E t \in Tasks :
        /\ apc[t] = "returned"
        /\ aop[t].kind = "set_default_account"
        /\ aop[t].id \notin Present(accountsFile)
        /\ aop[t].id \notin Present(aloaded[t])
        /\ accountsFile.default_account \in Present(accountsFile)

\* ---- C40 -----------------------------------------------------------------
\* The calls whose check_integrity is running.
Checking == {c \in Calls : vcpc[c] = "checking"}

\* C40: at most one integrity check runs at a time; a verify_integrity call
\* made while a check is in progress is rejected; and once every check has
\* ended (and the reset of a failed one has run) is_checking is false.
C40_OneIntegrityCheck ==
    /\ [](Cardinality(Checking) <= 1)
    /\ [][\A c \in Calls :
            (vcpc[c] = "idle" /\ vcpc'[c] # "idle" /\ Checking # {}) =>
                vcpc'[c] = "rejected"]_vars
    /\ []((Checking = {} /\ resets = 0) => ~is_checking)
====
